---- MODULE Spec2Model ----
(***************************************************************************)
(* Verification model of ore-stats-server.                                 *)
(*                                                                         *)
(*  - SpecAgg  : the store tables deployments, rounds, miner_round_stats   *)
(*               and miner_totals, with finalize_round_idempotent          *)
(*               (database.rs) run statement by statement inside its       *)
(*               transaction.                                              *)
(*  - SpecAttr : the reward attribution of update_data_system (rpc.rs),    *)
(*               applied to rounds and miner snapshots read from chain.    *)
(*  - SpecPoll : the polling loop of update_data_system (rpc.rs) against   *)
(*               a chain that moves from round to round, with its store    *)
(*               writes, RPC and store failures, abort and restart.        *)
(*  - SpecFinalize: the same loop with a snapshot pending and the board's  *)
(*               round open, under fairness of the task.                   *)
(*  - SpecStore: calls of insert_round, insert_deployment and              *)
(*               insert_deployments (database.rs) in any order.            *)
(*  - SpecWide : attribution and the rows written for a round, over        *)
(*               account values from the whole range of a machine word.    *)
(*  - SpecRefine: infer_refined_ore (rpc.rs) over account values of the    *)
(*               whole range of a word.                                    *)
(*  - SpecLock : the RwLocks of the cells, taken by the polling task and   *)
(*               by the handlers.                                          *)
(*  - SpecHttp : the handlers of main.rs that serve the read-model cells,  *)
(*               interleaved with the polling task's writes to the cells.  *)
(***************************************************************************)
EXTENDS Integers, Sequences, FiniteSets, TLC

VARIABLES
    deployments,        \* table deployments       (committed rows)
    rounds,             \* table rounds            (committed rows)
    miner_round_stats,  \* table miner_round_stats (committed rows)
    miner_totals,       \* table miner_totals      (committed rows)
    tx,                 \* the open transaction of finalize_round_idempotent
    finResult,          \* return value of the last finalize_round_idempotent
    writes,             \* number of insert_deployment / insert_round calls
    lastFin,            \* the two most recent committed finalize calls
    round,              \* Round account handed to attribution
    snapshot,           \* miners_snapshot.miners handed to attribution
    attributed,         \* deployments Vec built by attribution
    attrPc,             \* position of the attribution step
    chain,              \* the board, the slot clock and the sealed rounds
    poll,               \* locals of the polling task
    readModel,          \* app_state.miners and app_state.rounds
    miner_snapshots,    \* table miner_snapshots  (committed rows)
    treasury,           \* table treasury         (committed rows)
    call                \* record of the calls made: the store calls of SpecStore,
                        \* the handler's response of SpecHttp, the RPC fetches of
                        \* the running iteration of SpecPoll

vars == <<deployments, rounds, miner_round_stats, miner_totals, tx, finResult,
          writes, lastFin, round, snapshot, attributed, attrPc,
          chain, poll, readModel, miner_snapshots, treasury, call>>

aggVars  == <<deployments, rounds, miner_round_stats, miner_totals, tx,
              finResult, writes, lastFin>>
attrVars == <<round, snapshot, attributed, attrPc>>
pollVars == <<chain, poll, readModel, miner_snapshots, treasury, call>>

-----------------------------------------------------------------------------
(* Bounds and small input domains                                          *)

MaxWrites == 2

\* Machine words are scaled down: a u64 is a WordBits-bit unsigned integer,
\* the store's i64 a WordBits-bit signed one, a u128 has twice the bits.
WordBits == 12
U64Max   == 2^WordBits - 1
I64Max   == 2^(WordBits - 1) - 1
U128Mod  == 2^(2 * WordBits)

\* [u64; 25]
NumSquares == 25
Squares    == 0 .. (NumSquares - 1)

\* largest stake and cumulative offset of the small snapshots
MaxStake == 2

AggRounds  == {1, 2}
AggPubkeys == {"A", "B"}
AggSquares == {0, 1}
\* rounds.winning_square: a square, or the sentinel of an unrevealed round
UnrevealedSquare == 100
AggWinning == AggSquares \cup {UnrevealedSquare}
\* (amount, sol_earned, ore_earned) of the rows written to deployments
AggValues  == { <<1, 0, 0>>, <<2, 3, 1>> }
\* <<rounds, deployments>> the poller may have left in the store before the
\* first call modelled (it writes both tables and never calls finalize)
AggInitStore ==
    { <<{}, {}>>,
      <<{[id |-> 1, winning_square |-> 0]},
        {[round_id |-> 1, pubkey |-> "A", square_id |-> 0, amount |-> 1,
          sol_earned |-> 2, ore_earned |-> 1, unclaimed_ore |-> 0],
         [round_id |-> 2, pubkey |-> "A", square_id |-> 0, amount |-> 1,
          sol_earned |-> 0, ore_earned |-> 0, unclaimed_ore |-> 0]}>>,
      <<{[id |-> 1, winning_square |-> 0], [id |-> 2, winning_square |-> 1]},
        {[round_id |-> 1, pubkey |-> "A", square_id |-> 0, amount |-> 1,
          sol_earned |-> 2, ore_earned |-> 1, unclaimed_ore |-> 0],
         [round_id |-> 1, pubkey |-> "B", square_id |-> 1, amount |-> 2,
          sol_earned |-> 0, ore_earned |-> 0, unclaimed_ore |-> 0],
         [round_id |-> 2, pubkey |-> "A", square_id |-> 1, amount |-> 2,
          sol_earned |-> 3, ore_earned |-> 0, unclaimed_ore |-> 0]}>> }

-----------------------------------------------------------------------------
(* SQL helpers                                                             *)

RECURSIVE SumCol(_, _)
\* SUM(col) over a set of rows
SumCol(S, col) ==
    IF S = {} THEN 0
    ELSE LET x == CHOOSE y \in S : TRUE
         IN  x[col] + SumCol(S \ {x}, col)

\* MAX(CASE WHEN d.square_id = r.winning_square THEN 1 ELSE 0 END)
WonRound(D, winning_square) ==
    IF \E d \in D : d.square_id = winning_square THEN 1 ELSE 0

-----------------------------------------------------------------------------
(* Store writes outside the finalize transaction                           *)

DeploymentRow(r, p, s, v) ==
    [round_id |-> r, pubkey |-> p, square_id |-> s,
     amount |-> v[1], sol_earned |-> v[2], ore_earned |-> v[3],
     unclaimed_ore |-> 0]

SameDeploymentKey(a, b) ==
    a.round_id = b.round_id /\ a.pubkey = b.pubkey /\ a.square_id = b.square_id

\* INSERT ... ON CONFLICT(round_id, pubkey, square_id) DO UPDATE
UpsertDeployment(tbl, d) ==
    {x \in tbl : ~SameDeploymentKey(x, d)} \cup {d}

\* variant: ON CONFLICT(id) DO NOTHING
UpsertRound_KeepFirst(tbl, r) ==
    IF \E x \in tbl : x.id = r.id THEN tbl ELSE tbl \cup {r}

\* INSERT ... ON CONFLICT(id) DO UPDATE
UpsertRound(tbl, r) ==
    {x \in tbl : x.id # r.id} \cup {r}

\* A writer other than the finalize transaction can commit only while that
\* transaction does not hold the database write lock.
WriterFree == ~tx.writeLock

insert_deployment(d) ==
    /\ WriterFree
    /\ writes < MaxWrites
    /\ deployments' = UpsertDeployment(deployments, d)
    /\ writes' = writes + 1
    /\ lastFin' = [last |-> 0, twice |-> FALSE]
    /\ UNCHANGED <<rounds, miner_round_stats, miner_totals, tx, finResult>>
    /\ UNCHANGED attrVars
    /\ UNCHANGED pollVars

insert_round(r) ==
    /\ WriterFree
    /\ writes < MaxWrites
    /\ rounds' = UpsertRound(rounds, r)
    /\ writes' = writes + 1
    /\ lastFin' = [last |-> 0, twice |-> FALSE]
    /\ UNCHANGED <<deployments, miner_round_stats, miner_totals, tx, finResult>>
    /\ UNCHANGED attrVars
    /\ UNCHANGED pollVars

-----------------------------------------------------------------------------
(* finalize_round_idempotent, statement by statement                       *)

NoTx == [pc |-> "idle", round_id |-> 0, prior |-> {}, writeLock |-> FALSE,
         stats |-> {}, totals |-> {}]

\* a) SELECT ... FROM miner_round_stats WHERE round_id = ?
PriorRows(stats, round_id) == {s \in stats : s.round_id = round_id}

\* variant: step b) left out, the prior contribution is never subtracted
SubtractPriorRow_Skipped(totals, p) == totals

\* b) UPDATE miner_totals SET col = col - ? ... WHERE pubkey = ?
SubtractPriorRow(totals, p) ==
    { IF t.pubkey = p.pubkey
        THEN [t EXCEPT !.rounds_played      = @ - 1,
                       !.rounds_won         = @ - p.won_round,
                       !.total_sol_deployed = @ - p.total_sol_deployed,
                       !.total_sol_earned   = @ - p.total_sol_earned,
                       !.total_ore_earned   = @ - p.total_ore_earned,
                       !.net_sol_change     = @ - p.net_sol_round]
        ELSE t : t \in totals }

\* variant: the net column is SUM(amount) - SUM(sol_earned)
RecomputedRows_NetOfStake(deps, rnds, round_id) ==
    { LET D == {d \in deps : d.round_id = round_id /\ d.pubkey = p}
      IN  [round_id           |-> round_id,
           pubkey             |-> p,
           total_sol_deployed |-> SumCol(D, "amount"),
           total_sol_earned   |-> SumCol(D, "sol_earned"),
           total_ore_earned   |-> SumCol(D, "ore_earned"),
           won_round          |-> WonRound(D, r.winning_square),
           net_sol_round      |-> SumCol(D, "amount") - SumCol(D, "sol_earned")]
      : <<p, r>> \in { <<d.pubkey, rr>> : <<d, rr>> \in
                        { x \in deps \X rnds :
                            x[1].round_id = round_id /\ x[2].id = round_id } } }

\* c) SELECT ... FROM deployments d JOIN rounds r ON r.id = d.round_id
\*    WHERE d.round_id = ? GROUP BY d.round_id, d.pubkey
RecomputedRows(deps, rnds, round_id) ==
    { LET D == {d \in deps : d.round_id = round_id /\ d.pubkey = p}
      IN  [round_id           |-> round_id,
           pubkey             |-> p,
           total_sol_deployed |-> SumCol(D, "amount"),
           total_sol_earned   |-> SumCol(D, "sol_earned"),
           total_ore_earned   |-> SumCol(D, "ore_earned"),
           won_round          |-> WonRound(D, r.winning_square),
           net_sol_round      |-> SumCol(D, "sol_earned") - SumCol(D, "amount")]
      : <<p, r>> \in { <<d.pubkey, rr>> : <<d, rr>> \in
                        { x \in deps \X rnds :
                            x[1].round_id = round_id /\ x[2].id = round_id } } }

\* c) INSERT INTO miner_round_stats ... ON CONFLICT(round_id, pubkey) DO UPDATE
UpsertRoundStats(stats, fresh) ==
    { s \in stats : ~\E f \in fresh : f.round_id = s.round_id /\ f.pubkey = s.pubkey }
        \cup fresh

\* d) SELECT s.pubkey, COUNT(*), SUM(...) FROM miner_round_stats s
\*    WHERE s.round_id = ? GROUP BY s.pubkey
FreshContribution(stats, round_id) ==
    { LET G == {s \in stats : s.round_id = round_id /\ s.pubkey = p}
      IN  [pubkey             |-> p,
           rounds_played      |-> Cardinality(G),
           rounds_won         |-> SumCol(G, "won_round"),
           total_sol_deployed |-> SumCol(G, "total_sol_deployed"),
           total_sol_earned   |-> SumCol(G, "total_sol_earned"),
           total_ore_earned   |-> SumCol(G, "total_ore_earned"),
           net_sol_change     |-> SumCol(G, "net_sol_round")]
      : p \in { s.pubkey : s \in PriorRows(stats, round_id) } }

\* variant: ON CONFLICT(pubkey) DO UPDATE SET col = excluded.col
AddToTotals_Overwrite(totals, fresh) ==
    { t \in totals : ~\E f \in fresh : f.pubkey = t.pubkey } \cup fresh

\* d) INSERT INTO miner_totals ... ON CONFLICT(pubkey) DO UPDATE SET col = col + excluded.col
AddToTotals(totals, fresh) ==
    { IF \E f \in fresh : f.pubkey = t.pubkey
        THEN LET f == CHOOSE g \in fresh : g.pubkey = t.pubkey
             IN  [t EXCEPT !.rounds_played      = @ + f.rounds_played,
                           !.rounds_won         = @ + f.rounds_won,
                           !.total_sol_deployed = @ + f.total_sol_deployed,
                           !.total_sol_earned   = @ + f.total_sol_earned,
                           !.total_ore_earned   = @ + f.total_ore_earned,
                           !.net_sol_change     = @ + f.net_sol_change]
        ELSE t : t \in totals }
      \cup { f \in fresh : ~\E t \in totals : t.pubkey = f.pubkey }

\* let mut tx = pool.begin().await?  and  a) read the prior contribution of
\* this round.  The transaction is deferred: until its first write it holds
\* no lock, and its reads see the committed tables.
FinalizeBegin(round_id) ==
    /\ tx.pc = "idle"
    /\ tx' = [pc |-> "subtract", round_id |-> round_id,
              prior |-> PriorRows(miner_round_stats, round_id),
              writeLock |-> FALSE,
              stats |-> miner_round_stats, totals |-> miner_totals]
    /\ finResult' = "none"
    /\ UNCHANGED <<deployments, rounds, miner_round_stats, miner_totals, writes, lastFin>>
    /\ UNCHANGED attrVars
    /\ UNCHANGED pollVars

\* variant: the UPDATE of step b) is executed on the pool instead of the
\* transaction, so it commits on its own
FinalizeSubtract_OnPool ==
    /\ tx.pc = "subtract"
    /\ tx.prior # {}
    /\ \E p \in tx.prior :
          /\ tx' = [tx EXCEPT !.prior = @ \ {p},
                              !.totals = SubtractPriorRow(@, p)]
          /\ miner_totals' = SubtractPriorRow(miner_totals, p)
    /\ UNCHANGED <<deployments, rounds, miner_round_stats,
                   finResult, writes, lastFin>>
    /\ UNCHANGED attrVars
    /\ UNCHANGED pollVars

\* b) one turn of the loop over prior: the UPDATE runs on the transaction
FinalizeSubtract ==
    /\ tx.pc = "subtract"
    /\ tx.prior # {}
    /\ \E p \in tx.prior :
          tx' = [tx EXCEPT !.prior = @ \ {p},
                           !.writeLock = TRUE,
                           !.totals = SubtractPriorRow(@, p)]
    /\ UNCHANGED <<deployments, rounds, miner_round_stats, miner_totals,
                   finResult, writes, lastFin>>
    /\ UNCHANGED attrVars
    /\ UNCHANGED pollVars

\* c) recompute and upsert this round's rows, on the transaction
FinalizeUpsertStats ==
    /\ tx.pc = "subtract"
    /\ tx.prior = {}
    /\ tx' = [tx EXCEPT !.pc = "add",
                        !.writeLock = TRUE,
                        !.stats = UpsertRoundStats(@,
                                     RecomputedRows(deployments, rounds, tx.round_id))]
    /\ UNCHANGED <<deployments, rounds, miner_round_stats, miner_totals,
                   finResult, writes, lastFin>>
    /\ UNCHANGED attrVars
    /\ UNCHANGED pollVars

\* d) add the fresh contribution to the totals, on the transaction
FinalizeAddTotals ==
    /\ tx.pc = "add"
    /\ tx' = [tx EXCEPT !.pc = "commit",
                        !.totals = AddToTotals(@, FreshContribution(tx.stats, tx.round_id))]
    /\ UNCHANGED <<deployments, rounds, miner_round_stats, miner_totals,
                   finResult, writes, lastFin>>
    /\ UNCHANGED attrVars
    /\ UNCHANGED pollVars

\* tx.commit().await?; Ok(())
FinalizeCommit ==
    /\ tx.pc = "commit"
    /\ miner_round_stats' = tx.stats
    /\ miner_totals' = tx.totals
    /\ tx' = NoTx
    /\ finResult' = "ok"
    /\ lastFin' = [last |-> tx.round_id, twice |-> (lastFin.last = tx.round_id)]
    /\ UNCHANGED <<deployments, rounds, writes>>
    /\ UNCHANGED attrVars
    /\ UNCHANGED pollVars

\* a statement or the commit returns Err: `?` returns, tx is dropped and
\* rolled back
FinalizeFail ==
    /\ tx.pc \in {"subtract", "add", "commit"}
    /\ tx' = NoTx
    /\ finResult' = "err"
    /\ UNCHANGED <<deployments, rounds, miner_round_stats, miner_totals, writes, lastFin>>
    /\ UNCHANGED attrVars
    /\ UNCHANGED pollVars

\* the task is aborted at an await point: the future is dropped, and tx with
\* it, which rolls the transaction back; nothing is returned
FinalizeAbort ==
    /\ tx.pc \in {"subtract", "add", "commit"}
    /\ tx' = NoTx
    /\ finResult' = "none"
    /\ UNCHANGED <<deployments, rounds, miner_round_stats, miner_totals, writes, lastFin>>
    /\ UNCHANGED attrVars
    /\ UNCHANGED pollVars

-----------------------------------------------------------------------------
\* the polling task is not part of this specification
NoPoller ==
    /\ chain = [round_id |-> 0]
    /\ poll = [pc |-> "off"]
    /\ readModel = [miners |-> <<>>, rounds |-> <<>>]
    /\ miner_snapshots = <<>>
    /\ treasury = <<>>
    /\ call = [op |-> "none"]

InitAgg ==
    /\ \E st \in AggInitStore : rounds = st[1] /\ deployments = st[2]
    /\ miner_round_stats = {}
    /\ miner_totals = {}
    /\ tx = NoTx
    /\ finResult = "none"
    /\ writes = 0
    /\ lastFin = [last |-> 0, twice |-> FALSE]
    /\ round = [id |-> 0]
    /\ snapshot = <<>>
    /\ attributed = <<>>
    /\ attrPc = "off"
    /\ NoPoller

NextAgg ==
    \/ \E r \in AggRounds, p \in AggPubkeys, s \in AggSquares, v \in AggValues :
          insert_deployment(DeploymentRow(r, p, s, v))
    \/ \E r \in AggRounds, w \in AggWinning :
          insert_round([id |-> r, winning_square |-> w])
    \/ \E r \in AggRounds : FinalizeBegin(r)
    \/ FinalizeSubtract
    \/ FinalizeUpsertStats
    \/ FinalizeAddTotals
    \/ FinalizeCommit
    \/ FinalizeFail
    \/ FinalizeAbort

SpecAgg == InitAgg /\ [][NextAgg]_vars

-----------------------------------------------------------------------------
(* Integer arithmetic of rpc.rs                                            *)

\* u64::saturating_sub
SatSub(a, b) == IF a >= b THEN a - b ELSE 0

\* u64::saturating_add
SatAdd(a, b) == IF a + b > U64Max THEN U64Max ELSE a + b

\* `as u64` of a u128
AsU64(x) == x % (U64Max + 1)

\* `as i64` of a u64
AsI64(x) == IF x > I64Max THEN x - (U64Max + 1) ELSE x

\* variant: the product is taken at 64 bits
ProRata_Narrow(x, original, denom) == AsU64(x * original) \div denom

\* ((x as u128 * original as u128) / denom as u128) as u64
ProRata(x, original, denom) == AsU64(((x * original) % U128Mod) \div denom)

-----------------------------------------------------------------------------
(* Reward attribution (update_data_system, revealed round)                 *)

SPLIT_ADDRESS == "SPLIT"

None    == <<>>
Some(x) == <<x>>
IsSome(o) == o # <<>>
Unwrap(o) == o[1]

\* round.rng(): None for the two sentinel slot hashes
Rng(r) == IF r.slot_hash \in {"zero", "ones"} THEN None ELSE Some(r.rng)

\* round.winning_square(r)
WinningSquareOf(r, rng) == rng.square

\* round.top_miner_sample(r, winning_square): a draw below the stake of the
\* winning square
TopMinerSampleOf(r, rng, ws) ==
    IF r.deployed[ws] = 0 THEN 0 ELSE rng.sample % r.deployed[ws]

IsSplit(r) == r.top_miner = SPLIT_ADDRESS

\* (winning_square_opt, top_sample_opt, denom_opt)
RoundDraw(r) ==
    IF IsSome(Rng(r))
    THEN LET rng   == Unwrap(Rng(r))
             ws    == WinningSquareOf(r, rng)
             denom == r.deployed[ws]
         IN  IF denom = 0
             THEN [winning_square |-> Some(ws), top_sample |-> None,
                   denom |-> Some(denom)]
             ELSE [winning_square |-> Some(ws),
                   top_sample |-> IF IsSplit(r) THEN None
                                  ELSE Some(TopMinerSampleOf(r, rng, ws)),
                   denom |-> Some(denom)]
    ELSE [winning_square |-> None, top_sample |-> None, denom |-> None]

\* denom_opt.unwrap_or(0)
DenomOf(draw) == IF IsSome(draw.denom) THEN Unwrap(draw.denom) ELSE 0

\* variant: the admin fee without its floor of 1
AdminFee_NoFloor(original) == original \div 100

\* admin_fee = (original / 100).max(1)
AdminFee(original) ==
    IF original \div 100 >= 1 THEN original \div 100 ELSE 1

\* variant: no admin fee is taken
RewardsSol_NoFee(r, original, denom) ==
    SatAdd(original, ProRata(r.total_winnings, original, denom))

\* rewards_sol: the stake less the admin fee, plus the share of total_winnings
RewardsSol(r, original, denom) ==
    SatAdd(SatSub(original, AdminFee(original)),
           ProRata(r.total_winnings, original, denom))

\* variant: the interval is taken closed at its upper end
CoversSample_Inclusive(m, ws, original, sample) ==
    sample >= m.cumulative[ws] /\ sample <= SatAdd(m.cumulative[ws], original)

\* does the miner's cumulative interval on ws cover the sample
CoversSample(m, ws, original, sample) ==
    LET start == m.cumulative[ws]
        end   == SatAdd(start, original)
    IN  sample >= start /\ sample < end

\* variant: outside split mode every winner takes the reward
TopMinerOre_EveryWinner(r, m, ws, original, denom, top_sample) ==
    IF IsSplit(r)
    THEN SatAdd(0, ProRata(r.top_miner_reward, original, denom))
    ELSE SatAdd(0, r.top_miner_reward)

\* variant: split mode handled like the single-winner mode
TopMinerOre_NeverSplit(r, m, ws, original, denom, top_sample) ==
    IF CoversSample(m, ws, original, TopMinerSampleOf(r, r.rng, ws))
    THEN SatAdd(0, r.top_miner_reward)
    ELSE 0

\* top-miner part of ore_earned: pro-rata if split, else winner takes all
TopMinerOre(r, m, ws, original, denom, top_sample) ==
    IF IsSplit(r)
    THEN SatAdd(0, ProRata(r.top_miner_reward, original, denom))
    ELSE IF IsSome(top_sample)
         THEN IF CoversSample(m, ws, original, Unwrap(top_sample))
              THEN SatAdd(0, r.top_miner_reward)
              ELSE 0
         ELSE 0

\* variant: every winner is paid the whole motherlode
MotherlodeOre_Whole(r, original, denom) == r.motherlode

\* motherlode part of ore_earned
MotherlodeOre(r, original, denom) ==
    IF r.motherlode > 0 THEN ProRata(r.motherlode, original, denom) ELSE 0

\* variant: a deployment gets its stake back by default
DefaultEarned_Refund(amount) == [sol |-> amount, ore |-> 0]

\* defaults for non-winning squares (or missing RNG)
DefaultEarned(amount) == [sol |-> 0, ore |-> 0]

\* variant: the reward is computed for every staked square
Earned_AnySquare(r, draw, m, square_index, amount) ==
    IF IsSome(draw.winning_square) /\ DenomOf(draw) > 0
    THEN [sol |-> RewardsSol(r, amount, DenomOf(draw)),
          ore |-> MotherlodeOre(r, amount, DenomOf(draw))]
    ELSE DefaultEarned(amount)

\* (sol_earned_u64, ore_earned_u64) of one stake
Earned(r, draw, m, square_index, amount) ==
    IF /\ IsSome(draw.winning_square)
       /\ square_index = Unwrap(draw.winning_square)
       /\ DenomOf(draw) > 0
    THEN LET ws    == Unwrap(draw.winning_square)
             denom == DenomOf(draw)
         IN  [sol |-> RewardsSol(r, amount, denom),
              ore |-> SatAdd(TopMinerOre(r, m, ws, amount, denom, draw.top_sample),
                             MotherlodeOre(r, amount, denom))]
    ELSE DefaultEarned(amount)

\* CreateDeployment { ... }
CreateDeployment(r, draw, m, square_index) ==
    LET amount == m.deployed[square_index]
        e      == Earned(r, draw, m, square_index, amount)
    IN  [round_id      |-> AsI64(m.round_id),
         pubkey        |-> m.authority,
         square_id     |-> AsI64(square_index),
         amount        |-> AsI64(amount),
         sol_earned    |-> AsI64(e.sol),
         ore_earned    |-> AsI64(e.ore),
         unclaimed_ore |-> AsI64(m.rewards_ore)]

\* the squares the inner loop does not skip, in order
StakedSquares(m) ==
    SelectSeq([i \in 1 .. NumSquares |-> i - 1], LAMBDA sq : m.deployed[sq] # 0)

\* the rows pushed for one miner of the round
MinerRows(r, draw, m) ==
    LET sqs == StakedSquares(m)
    IN  [k \in 1 .. Len(sqs) |-> CreateDeployment(r, draw, m, sqs[k])]

RECURSIVE AttributeFrom_AllMiners(_, _, _, _)
\* variant: the loop does not look at miner.round_id
AttributeFrom_AllMiners(r, draw, miners, i) ==
    IF i > Len(miners) THEN <<>>
    ELSE MinerRows(r, draw, miners[i])
            \o AttributeFrom_AllMiners(r, draw, miners, i + 1)

RECURSIVE AttributeFrom(_, _, _, _)
\* for miner in miners_snapshot.miners.iter() { if miner.round_id == round.id ... }
AttributeFrom(r, draw, miners, i) ==
    IF i > Len(miners) THEN <<>>
    ELSE (IF miners[i].round_id = r.id THEN MinerRows(r, draw, miners[i]) ELSE <<>>)
            \o AttributeFrom(r, draw, miners, i + 1)

\* the deployments Vec handed to insert_deployments
Attribution(r, miners) == AttributeFrom(r, RoundDraw(r), miners, 1)

\* variant: a miner left over from another round takes it as well
TakesTopMiner_AnyRound(r, draw, m) ==
    /\ IsSome(draw.winning_square)
    /\ DenomOf(draw) > 0
    /\ m.deployed[Unwrap(draw.winning_square)] # 0
    /\ ~IsSplit(r)
    /\ IsSome(draw.top_sample)
    /\ CoversSample(m, Unwrap(draw.winning_square),
                    m.deployed[Unwrap(draw.winning_square)], Unwrap(draw.top_sample))

\* does the loop set round.top_miner to this miner
TakesTopMiner(r, draw, m) ==
    /\ m.round_id = r.id
    /\ IsSome(draw.winning_square)
    /\ DenomOf(draw) > 0
    /\ m.deployed[Unwrap(draw.winning_square)] # 0
    /\ ~IsSplit(r)
    /\ IsSome(draw.top_sample)
    /\ CoversSample(m, Unwrap(draw.winning_square),
                    m.deployed[Unwrap(draw.winning_square)], Unwrap(draw.top_sample))

\* round.top_miner after the loop: the last miner that took it, if any
TopMinerAfter(r, miners) ==
    LET draw == RoundDraw(r)
        hits == {i \in 1 .. Len(miners) : TakesTopMiner(r, draw, miners[i])}
    IN  IF hits = {} THEN r.top_miner
        ELSE miners[CHOOSE i \in hits : \A j \in hits : j <= i].authority

\* process round data: build the deployments of a revealed round
AttributeRound ==
    /\ attrPc = "ready"
    /\ IsSome(Rng(round))
    /\ attributed' = Attribution(round, snapshot)
    /\ round' = [round EXCEPT !.top_miner = TopMinerAfter(round, snapshot)]
    /\ attrPc' = "done"
    /\ UNCHANGED snapshot
    /\ UNCHANGED aggVars
    /\ UNCHANGED pollVars

-----------------------------------------------------------------------------
(* Rounds and snapshots read from the chain                                *)

\* the round attributed and the round before it
AttrRoundIds == <<5, 4>>
AttrRoundId  == AttrRoundIds[1]
\* the two squares the miners of these snapshots stake on
StakedPair  == <<7, 8>>
StakeSquare == StakedPair[1]
OtherSquare == StakedPair[2]

\* a Miner account with stake on StakeSquare and OtherSquare only
MinerAccount(authority, round_id, stake, cumulative, other) ==
    [authority  |-> authority,
     round_id   |-> round_id,
     deployed   |-> [sq \in Squares |-> IF sq = StakeSquare THEN stake
                                        ELSE IF sq = OtherSquare THEN other ELSE 0],
     cumulative |-> [sq \in Squares |-> IF sq = StakeSquare THEN cumulative ELSE 0],
     rewards_ore |-> 0]

\* a revealed Round account
RoundAccount(ws, denom, sample, top_miner, reward, motherlode, winnings) ==
    [id               |-> AttrRoundId,
     slot_hash        |-> "revealed",
     rng              |-> [square |-> ws, sample |-> sample],
     deployed         |-> [sq \in Squares |-> IF sq = ws THEN denom ELSE 0],
     top_miner        |-> top_miner,
     top_miner_reward |-> reward,
     motherlode       |-> motherlode,
     total_winnings   |-> winnings]

\* the sample drawn is below the stake of the winning square
SampleInRange(denom, sample) == sample < (IF denom = 0 THEN 1 ELSE denom)

\* small rounds and snapshots: two miners, one of which may be left over from
\* the round before
SmallInputs ==
    \E ws \in {StakeSquare, OtherSquare}, denom \in 0 .. 3, sample \in 0 .. 2,
       tm \in {SPLIT_ADDRESS, "chain"},
       reward \in {0, 2}, ml \in {0, 3}, tw \in {0, 5},
       a \in 0 .. MaxStake, ca \in 0 .. MaxStake, oa \in {0, 1},
       rb \in {AttrRoundIds[1], AttrRoundIds[2]},
       b \in 0 .. MaxStake, cb \in 0 .. MaxStake :
        /\ SampleInRange(denom, sample)
        /\ round = RoundAccount(ws, denom, sample, tm, reward, ml, tw)
        /\ snapshot = << MinerAccount("A", AttrRoundId, a, ca, oa),
                         MinerAccount("B", rb, b, cb, 0) >>

\* rounds of the size of the specification's scenarios
ScenarioInputs ==
    \E a \in {99, 200, 400}, b \in {101, 600},
       sample \in {0, 98, 99, 300, 399, 400, 699},
       tm \in {SPLIT_ADDRESS, "chain"}, ml \in {0, 1000} :
        /\ SampleInRange(a + b, sample)
        /\ round = RoundAccount(StakeSquare, a + b, sample, tm, 200, ml, 500)
        /\ snapshot = << MinerAccount("A", AttrRoundId, a, 0, 0),
                         MinerAccount("B", AttrRoundId, b, a, 0) >>

InitAttr ==
    /\ deployments = {}
    /\ rounds = {}
    /\ miner_round_stats = {}
    /\ miner_totals = {}
    /\ tx = NoTx
    /\ finResult = "none"
    /\ writes = 0
    /\ lastFin = [last |-> 0, twice |-> FALSE]
    /\ (SmallInputs \/ ScenarioInputs)
    /\ attributed = <<>>
    /\ attrPc = "ready"
    /\ NoPoller

NextAttr == AttributeRound

SpecAttr == InitAttr /\ [][NextAttr]_vars

-----------------------------------------------------------------------------
(* The chain as the polling task reads it                                  *)

\* the board moves through rounds 1 .. MaxRound
MaxRound == 3
\* faults injected into a run: aborts of the polling task, RPC calls that
\* fail, and store calls that fail for a reason of the store's own
MaxFaults == 1

SlotHashes == {"zero", "ones", "revealed"}

\* slots_left_in_round = board.end_slot as i64 - current_slot as i64, by its
\* sign.  While a new round waits for its first deployment end_slot is
\* u64::MAX, which `as i64` turns into -1.
SlotsLeft(c) ==
    CASE c.phase = "open"    -> 1
      [] c.phase = "edge"    -> 0
      [] c.phase = "closed"  -> -1
      [] c.phase = "waiting" -> -1

\* the Round account of round id; the rounds with an even id are in split
\* mode
ChainRound(c, id) ==
    [id               |-> id,
     slot_hash        |-> IF id = c.round_id - 1 THEN c.prev_hash ELSE "zero",
     rng              |-> [square |-> StakeSquare, sample |-> 0],
     deployed         |-> [sq \in Squares |-> IF sq = StakeSquare THEN 1 ELSE 0],
     top_miner        |-> IF id % 2 = 0 THEN SPLIT_ADDRESS ELSE "chain",
     top_miner_reward |-> 2,
     motherlode       |-> 0,
     total_winnings   |-> 5]

\* the round the miners last deployed in: the board's round once it has
\* sealed, the one before while the board's round waits for deployments
MinersRound(c) == IF c.phase = "waiting" THEN c.round_id - 1 ELSE c.round_id

\* the Miner accounts get_program_accounts returns: A deployed in the
\* miners' round, B has not deployed since the round before it
ChainMiners(c) ==
    << MinerAccount("A", MinersRound(c), 1, 0, 1),
       MinerAccount("B", MinersRound(c) - 1, 1, 0, 0) >>

\* the Treasury account
ChainTreasury == [balance |-> 0, motherlode |-> 0]

\* The task reads the chain at the top of an iteration only (the board, the
\* slot, then the round and the miners), so the steps of the chain are taken
\* between iterations or while the task is down.
BetweenIterations == poll.pc \in {"loop", "aborted"} /\ call.op = "none"

\* the slot clock passes the deadline of the board's round
ChainSlot ==
    /\ BetweenIterations
    /\ \/ chain.phase = "open" /\ chain' = [chain EXCEPT !.phase = "edge"]
       \/ chain.phase = "open" /\ chain' = [chain EXCEPT !.phase = "closed"]
       \/ chain.phase = "edge" /\ chain' = [chain EXCEPT !.phase = "closed"]
    /\ UNCHANGED <<poll, readModel, miner_snapshots, treasury, call>>
    /\ UNCHANGED aggVars
    /\ UNCHANGED attrVars

\* reset: the board's round is sealed with the slot hash h and the board
\* moves to the next round, which waits for its first deployment
ChainReset(h) ==
    /\ BetweenIterations
    /\ chain.phase = "closed"
    /\ chain.round_id < MaxRound
    /\ chain' = [chain EXCEPT !.round_id = @ + 1,
                              !.phase = "waiting",
                              !.prev_hash = h]
    /\ UNCHANGED <<poll, readModel, miner_snapshots, treasury, call>>
    /\ UNCHANGED aggVars
    /\ UNCHANGED attrVars

\* the first deployment of the board's round sets its end slot
ChainFirstDeploy ==
    /\ BetweenIterations
    /\ chain.phase = "waiting"
    /\ chain' = [chain EXCEPT !.phase = "open"]
    /\ UNCHANGED <<poll, readModel, miner_snapshots, treasury, call>>
    /\ UNCHANGED aggVars
    /\ UNCHANGED attrVars

\* the slot hash of the round sealed last becomes visible to the RPC node
ChainReveal(h) ==
    /\ BetweenIterations
    /\ chain.prev_hash = "zero"
    /\ h # "zero"
    /\ chain' = [chain EXCEPT !.prev_hash = h]
    /\ UNCHANGED <<poll, readModel, miner_snapshots, treasury, call>>
    /\ UNCHANGED aggVars
    /\ UNCHANGED attrVars

-----------------------------------------------------------------------------
(* Rows the polling task writes                                            *)

\* variant: the winning square is computed whether or not the round has
\* its rng
RoundRowFrom_AlwaysDrawn(r) ==
    [id               |-> AsI64(r.id),
     slot_hash        |-> r.slot_hash,
     winning_square   |-> AsI64(r.rng.square),
     motherlode       |-> AsI64(r.motherlode),
     top_miner        |-> r.top_miner,
     top_miner_reward |-> AsI64(r.top_miner_reward),
     total_winnings   |-> AsI64(r.total_winnings)]

\* impl From<Round> for RoundRow (the columns the model's accounts carry)
RoundRowFrom(r) ==
    [id               |-> AsI64(r.id),
     slot_hash        |-> r.slot_hash,
     winning_square   |-> IF IsSome(Rng(r))
                          THEN AsI64(WinningSquareOf(r, Unwrap(Rng(r))))
                          ELSE UnrevealedSquare,
     motherlode       |-> AsI64(r.motherlode),
     top_miner        |-> r.top_miner,
     top_miner_reward |-> AsI64(r.top_miner_reward),
     total_winnings   |-> AsI64(r.total_winnings)]

\* impl From<Round> for AppRound
AppRoundFrom(r) ==
    [id |-> r.id, top_miner |-> r.top_miner, motherlode |-> r.motherlode,
     top_miner_reward |-> r.top_miner_reward,
     total_winnings |-> r.total_winnings]

\* impl From<AppMiner> for CreateMinerSnapshot
CreateMinerSnapshotFrom(m) ==
    [pubkey |-> m.authority, unclaimed_ore |-> AsI64(m.rewards_ore)]

\* db_snapshot: one CreateMinerSnapshot per miner of the snapshot
DbSnapshot(miners) ==
    [i \in 1 .. Len(miners) |-> CreateMinerSnapshotFrom(miners[i])]

\* impl From<Treasury> for CreateTreasury
CreateTreasuryFrom(t) ==
    [balance |-> AsI64(t.balance), motherlode |-> AsI64(t.motherlode)]

SeqToSet(q) == {q[i] : i \in 1 .. Len(q)}

\* a row of the batch has the key of a stored row or of another row of the
\* batch: the unique index on (round_id, pubkey, square_id) rejects it
DeploymentKeyConflict(tbl, rows) ==
    \/ \E i \in 1 .. Len(rows) : \E x \in tbl : SameDeploymentKey(x, rows[i])
    \/ \E i, j \in 1 .. Len(rows) : i # j /\ SameDeploymentKey(rows[i], rows[j])

\* insert_deployments: plain INSERTs in one transaction; a rejected row
\* fails its statement, `?` returns and the transaction is rolled back
InsertDeployments(tbl, rows) ==
    IF DeploymentKeyConflict(tbl, rows)
    THEN [ok |-> FALSE, tbl |-> tbl]
    ELSE [ok |-> TRUE,  tbl |-> tbl \cup SeqToSet(rows)]

-----------------------------------------------------------------------------
(* update_data_system: the polling loop                                    *)

\* no round has been fetched for finalization yet
NoRound == [id |-> 0, slot_hash |-> "zero"]

\* board_snapshot and miners_snapshot as the task starts
PollStart(restarts) ==
    [pc |-> "loop", board_snapshot |-> FALSE, round_id |-> 0,
     completed |-> FALSE, restarts |-> restarts, store_errors |-> 0,
     rpc_errors |-> 0]

AtLoop == poll.pc = "loop"

\* no iteration is running: the task is at the top of the loop, about to
\* fetch the treasury
NoRpc == [op |-> "none"]
Idle  == call = NoRpc

\* the fetches an iteration has made, and the one that failed, if any
Iteration(fetched, failed) ==
    [op |-> "iteration", fetched |-> fetched, failed |-> failed]

\* treasury, board and slot are fetched before the branch on slots_left;
\* a treasury or a board that was fetched is written to its cell at once
\* (TaskWritesTreasury, TaskWritesBoard)
Observed == {"treasury", "board", "slot"}

\* the faults injected so far, and whether another one may be
Faults  == poll.restarts + poll.store_errors + poll.rpc_errors
CanFail == Faults < MaxFaults

\* the round the finalization fetches: board.round_id - 1
PreviousRound == ChainRound(chain, chain.round_id - 1)

FinalizeDue == AtLoop /\ SlotsLeft(chain) > 0 /\ ~poll.completed

PollUnchangedStore ==
    /\ UNCHANGED <<deployments, rounds, miner_snapshots, treasury>>
    /\ UNCHANGED <<miner_round_stats, miner_totals, tx, finResult, writes, lastFin>>
    /\ UNCHANGED <<chain, attrPc>>

\* the fetch of the treasury, the board or the slot fails: log, sleep,
\* continue
PollFetchFails(what) ==
    /\ AtLoop /\ Idle
    /\ CanFail
    /\ poll' = [poll EXCEPT !.rpc_errors = @ + 1]
    /\ call' = Iteration(CASE what = "treasury" -> {"treasury"}
                           [] what = "board"    -> {"treasury", "board"}
                           [] what = "slot"     -> Observed,
                         what)
    /\ UNCHANGED <<round, snapshot, attributed, readModel>>
    /\ PollUnchangedStore

\* slots_left_in_round < 0 and no snapshot yet, but the fetch of the board's
\* round fails: log, sleep, continue
PollSnapshotRoundFails ==
    /\ AtLoop /\ Idle
    /\ SlotsLeft(chain) < 0
    /\ ~poll.board_snapshot
    /\ CanFail
    /\ poll' = [poll EXCEPT !.rpc_errors = @ + 1]
    /\ call' = Iteration(Observed \cup {"round"}, "round")
    /\ UNCHANGED <<round, snapshot, attributed, readModel>>
    /\ PollUnchangedStore

\* slots_left_in_round < 0 and no snapshot yet: fetch the board's round and
\* the miner accounts, and store them in miners_snapshot.  A failed miner
\* fetch is not reported: it leaves miners empty.
PollSnapshot ==
    /\ AtLoop /\ Idle
    /\ SlotsLeft(chain) < 0
    /\ ~poll.board_snapshot
    /\ \E fetched \in {TRUE} \cup (IF CanFail THEN {FALSE} ELSE {}) :
          LET miners == IF fetched THEN ChainMiners(chain) ELSE <<>> IN
          /\ snapshot' = miners
          /\ poll' = [poll EXCEPT !.round_id = chain.round_id,
                                  !.completed = (Len(miners) = 0),
                                  !.board_snapshot = TRUE,
                                  !.rpc_errors = IF fetched THEN @ ELSE @ + 1]
          /\ call' = Iteration(Observed \cup {"round", "miners"},
                               IF fetched THEN "none" ELSE "miners")
    /\ UNCHANGED <<round, attributed, readModel>>
    /\ PollUnchangedStore

\* slots_left_in_round < 0 with the snapshot taken: nothing to do
PollSealing ==
    /\ AtLoop /\ Idle
    /\ SlotsLeft(chain) < 0
    /\ poll.board_snapshot
    /\ call' = Iteration(Observed, "none")
    /\ UNCHANGED <<poll, round, snapshot, attributed, readModel>>
    /\ PollUnchangedStore

\* variant: the live iteration reopens the pending snapshot
PollLive_Reopens ==
    /\ AtLoop /\ Idle
    /\ SlotsLeft(chain) > 0
    /\ poll.completed
    /\ poll' = [poll EXCEPT !.board_snapshot = FALSE, !.completed = FALSE]
    /\ call' = Iteration(Observed, "none")
    /\ UNCHANGED <<round, snapshot, attributed, readModel>>
    /\ PollUnchangedStore

\* slots_left_in_round > 0 with the snapshot completed
PollLive ==
    /\ AtLoop /\ Idle
    /\ SlotsLeft(chain) > 0
    /\ poll.completed
    /\ poll' = [poll EXCEPT !.board_snapshot = FALSE]
    /\ call' = Iteration(Observed, "none")
    /\ UNCHANGED <<round, snapshot, attributed, readModel>>
    /\ PollUnchangedStore

\* slots_left_in_round = 0: the final else branch
PollEdge ==
    /\ AtLoop /\ Idle
    /\ SlotsLeft(chain) = 0
    /\ poll' = [poll EXCEPT !.board_snapshot = FALSE]
    /\ call' = Iteration(Observed, "none")
    /\ UNCHANGED <<round, snapshot, attributed, readModel>>
    /\ PollUnchangedStore

\* variant: a failed fetch of the previous round gives the round up
PollRoundFetchFails_GivesUp ==
    /\ FinalizeDue /\ Idle
    /\ CanFail
    /\ poll' = [poll EXCEPT !.board_snapshot = FALSE, !.rpc_errors = @ + 1,
                            !.completed = TRUE]
    /\ call' = Iteration(Observed \cup {"round"}, "round")
    /\ UNCHANGED <<round, snapshot, attributed, readModel>>
    /\ PollUnchangedStore

\* the fetch of the previous round fails: continue
PollRoundFetchFails ==
    /\ FinalizeDue /\ Idle
    /\ CanFail
    /\ poll' = [poll EXCEPT !.board_snapshot = FALSE, !.rpc_errors = @ + 1]
    /\ call' = Iteration(Observed \cup {"round"}, "round")
    /\ UNCHANGED <<round, snapshot, attributed, readModel>>
    /\ PollUnchangedStore

\* variant: an all-zero slot hash is handled like an all-ones one
PollZeroHash_AsResetFailed ==
    /\ FinalizeDue /\ Idle
    /\ call' = Iteration(Observed \cup {"round"}, "none")
    /\ PreviousRound.slot_hash = "zero"
    /\ round' = PreviousRound
    /\ readModel' = [readModel EXCEPT !.miners = snapshot]
    /\ poll' = [poll EXCEPT !.board_snapshot = FALSE, !.completed = TRUE,
                            !.pc = "w_miners"]
    /\ attributed' = <<>>
    /\ UNCHANGED snapshot
    /\ PollUnchangedStore

\* round.slot_hash == [0; 32]: log, sleep, continue
PollZeroHash ==
    /\ FinalizeDue /\ Idle
    /\ call' = Iteration(Observed \cup {"round"}, "none")
    /\ PreviousRound.slot_hash = "zero"
    /\ poll' = [poll EXCEPT !.board_snapshot = FALSE]
    /\ UNCHANGED <<round, snapshot, attributed, readModel>>
    /\ PollUnchangedStore

\* round.slot_hash == [u8::MAX; 32]: the miners cell is set to the snapshot,
\* completed is set, and the writes of lines 181-207 follow
PollResetFailed ==
    /\ FinalizeDue /\ Idle
    /\ call' = Iteration(Observed \cup {"round"}, "none")
    /\ PreviousRound.slot_hash = "ones"
    /\ round' = PreviousRound
    /\ readModel' = [readModel EXCEPT !.miners = snapshot]
    /\ poll' = [poll EXCEPT !.board_snapshot = FALSE, !.completed = TRUE,
                            !.pc = "w_miners"]
    /\ attributed' = <<>>
    /\ UNCHANGED snapshot
    /\ PollUnchangedStore

\* process round data: the round has its rng; build the deployments
PollAttribute ==
    /\ FinalizeDue /\ Idle
    /\ call' = Iteration(Observed \cup {"round"}, "none")
    /\ IsSome(Rng(PreviousRound))
    /\ attributed' = Attribution(PreviousRound, snapshot)
    /\ round' = [PreviousRound EXCEPT !.top_miner = TopMinerAfter(PreviousRound, snapshot)]
    /\ poll' = [poll EXCEPT !.board_snapshot = FALSE, !.pc = "w_deployments"]
    /\ UNCHANGED <<snapshot, readModel>>
    /\ PollUnchangedStore

\* whether the store accepts a call of the task, or fails it for a reason
\* of its own
StoreAnswers == {TRUE} \cup (IF CanFail THEN {FALSE} ELSE {})

\* the number of "Failed to insert" lines logged, after a call returned
Logged(ok) == IF ok THEN poll.store_errors ELSE poll.store_errors + 1

PollUnchangedAgg ==
    /\ UNCHANGED <<miner_round_stats, miner_totals, tx, finResult, writes, lastFin>>
    /\ UNCHANGED <<chain, attrPc, call>>

\* insert_deployments(&db_pool, &deployments): an Err is logged
PollInsertDeployments ==
    /\ poll.pc = "w_deployments"
    /\ \E accepted \in StoreAnswers :
          LET res == InsertDeployments(deployments, attributed)
          IN  /\ deployments' = IF accepted THEN res.tbl ELSE deployments
              /\ poll' = [poll EXCEPT !.pc = "w_miners",
                                      !.store_errors = Logged(accepted /\ res.ok)]
    /\ UNCHANGED <<rounds, miner_snapshots, treasury>>
    /\ UNCHANGED <<round, snapshot, attributed, readModel>>
    /\ PollUnchangedAgg

\* the miners cell is set to the snapshot; insert_miner_snapshots appends
\* its rows in one transaction; an Err is logged
PollInsertMiners ==
    /\ poll.pc = "w_miners"
    /\ readModel' = [readModel EXCEPT !.miners = snapshot]
    /\ \E accepted \in StoreAnswers :
          /\ miner_snapshots' = IF accepted
                                THEN miner_snapshots \o DbSnapshot(snapshot)
                                ELSE miner_snapshots
          /\ poll' = [poll EXCEPT !.pc = "w_round",
                                  !.store_errors = Logged(accepted)]
    /\ UNCHANGED <<deployments, rounds, treasury>>
    /\ UNCHANGED <<round, snapshot, attributed>>
    /\ PollUnchangedAgg

\* the round is pushed onto the rounds cell; insert_round upserts its row;
\* an Err is logged
PollInsertRound ==
    /\ poll.pc = "w_round"
    /\ readModel' = [readModel EXCEPT !.rounds = Append(@, AppRoundFrom(round))]
    /\ \E accepted \in StoreAnswers :
          /\ rounds' = IF accepted THEN UpsertRound(rounds, RoundRowFrom(round))
                       ELSE rounds
          /\ poll' = [poll EXCEPT !.pc = "w_treasury",
                                  !.store_errors = Logged(accepted)]
    /\ UNCHANGED <<deployments, miner_snapshots, treasury>>
    /\ UNCHANGED <<round, snapshot, attributed>>
    /\ PollUnchangedAgg

\* variant: completed is not set after the writes
PollInsertTreasury_NotCompleted ==
    /\ poll.pc = "w_treasury"
    /\ treasury' = Append(treasury, CreateTreasuryFrom(ChainTreasury))
    /\ poll' = [poll EXCEPT !.pc = "loop"]
    /\ UNCHANGED <<deployments, rounds, miner_snapshots>>
    /\ UNCHANGED <<round, snapshot, attributed, readModel>>
    /\ PollUnchangedAgg

\* insert_treasury appends a row; an Err is logged; then
\* miners_snapshot.completed = true (set already for a failed reset)
PollInsertTreasury ==
    /\ poll.pc = "w_treasury"
    /\ \E accepted \in StoreAnswers :
          /\ treasury' = IF accepted
                         THEN Append(treasury, CreateTreasuryFrom(ChainTreasury))
                         ELSE treasury
          /\ poll' = [poll EXCEPT !.pc = "loop", !.completed = TRUE,
                                  !.store_errors = Logged(accepted)]
    /\ UNCHANGED <<deployments, rounds, miner_snapshots>>
    /\ UNCHANGED <<round, snapshot, attributed, readModel>>
    /\ PollUnchangedAgg

\* the iteration ends: after its sleep the task is at the top of the loop
PollSleep ==
    /\ AtLoop
    /\ ~Idle
    /\ call' = NoRpc
    /\ UNCHANGED <<poll, round, snapshot, attributed, readModel>>
    /\ PollUnchangedStore

\* the task is aborted at an await point
PollAbort ==
    /\ poll.pc # "aborted"
    /\ CanFail
    /\ poll' = [poll EXCEPT !.pc = "aborted"]
    /\ call' = NoRpc
    /\ UNCHANGED <<round, snapshot, attributed, readModel>>
    /\ PollUnchangedStore

\* the cells of AppState as main builds them: the miners fetched at startup
\* and no rounds
BootReadModel == [miners |-> ChainMiners(chain), rounds |-> <<>>]

\* the process starts again: AppState and the task's locals are new, the
\* store is as it was left
PollRestart ==
    /\ poll.pc = "aborted"
    /\ poll' = [PollStart(poll.restarts + 1) EXCEPT !.store_errors = poll.store_errors,
                                                     !.rpc_errors = poll.rpc_errors]
    /\ UNCHANGED call
    /\ readModel' = BootReadModel
    /\ snapshot' = <<>>
    /\ round' = NoRound
    /\ attributed' = <<>>
    /\ PollUnchangedStore

InitPoll ==
    /\ deployments = {}
    /\ rounds = {}
    /\ miner_round_stats = {}
    /\ miner_totals = {}
    /\ tx = NoTx
    /\ finResult = "none"
    /\ writes = 0
    /\ lastFin = [last |-> 0, twice |-> FALSE]
    /\ round = NoRound
    /\ snapshot = <<>>
    /\ attributed = <<>>
    /\ attrPc = "off"
    /\ \E phase \in {"open", "closed"}, h \in SlotHashes :
          chain = [round_id |-> 1, phase |-> phase, prev_hash |-> h]
    /\ poll = PollStart(0)
    /\ readModel = BootReadModel
    /\ miner_snapshots = <<>>
    /\ treasury = <<>>
    /\ call = NoRpc

NextPoll ==
    \/ ChainSlot
    \/ \E h \in SlotHashes : ChainReset(h)
    \/ ChainFirstDeploy
    \/ \E h \in SlotHashes : ChainReveal(h)
    \/ \E what \in Observed : PollFetchFails(what)
    \/ PollSnapshotRoundFails
    \/ PollSnapshot
    \/ PollSealing
    \/ PollLive
    \/ PollEdge
    \/ PollRoundFetchFails
    \/ PollZeroHash
    \/ PollResetFailed
    \/ PollAttribute
    \/ PollInsertDeployments
    \/ PollInsertMiners
    \/ PollInsertRound
    \/ PollInsertTreasury
    \/ PollSleep
    \/ PollAbort
    \/ PollRestart

SpecPoll == InitPoll /\ [][NextPoll]_vars

-----------------------------------------------------------------------------
(* The finalization of a pending snapshot while the board's round stays    *)
(* open: the loop keeps running and the chain only reveals the slot hash   *)

\* the task's steps
NextTask ==
    \/ \E what \in Observed : PollFetchFails(what)
    \/ PollLive
    \/ PollRoundFetchFails
    \/ PollZeroHash
    \/ PollResetFailed
    \/ PollAttribute
    \/ PollInsertDeployments
    \/ PollInsertMiners
    \/ PollInsertRound
    \/ PollInsertTreasury
    \/ PollSleep

\* a snapshot of the miners was taken at the deadline of round n - 1 and is
\* pending; the board's round n has opened since
InitFinalize ==
    /\ deployments = {}
    /\ rounds = {}
    /\ miner_round_stats = {}
    /\ miner_totals = {}
    /\ tx = NoTx
    /\ finResult = "none"
    /\ writes = 0
    /\ lastFin = [last |-> 0, twice |-> FALSE]
    /\ round = NoRound
    /\ attributed = <<>>
    /\ attrPc = "off"
    /\ \E n \in 2 .. MaxRound, h \in SlotHashes :
          /\ chain = [round_id |-> n, phase |-> "open", prev_hash |-> h]
          /\ snapshot = ChainMiners([round_id |-> n - 1, phase |-> "closed",
                                     prev_hash |-> "zero"])
          /\ poll = [PollStart(0) EXCEPT !.round_id = n - 1,
                                         !.board_snapshot = TRUE]
    /\ readModel = BootReadModel
    /\ miner_snapshots = <<>>
    /\ treasury = <<>>
    /\ call = NoRpc

NextFinalize ==
    \/ NextTask
    \/ \E h \in SlotHashes : ChainReveal(h)

\* the loop never ends and each of its awaits returns, so the task keeps
\* taking steps; the slot hash of the sealed round becomes visible in the
\* end
SpecFinalize ==
    /\ InitFinalize
    /\ [][NextFinalize]_vars
    /\ WF_vars(NextTask)
    /\ \A h \in SlotHashes : SF_vars(ChainReveal(h))

-----------------------------------------------------------------------------
(* Leaderboard queries: slow path over deployments, fast path (_v2) over   *)
(* the aggregates.  A query's value is the set of results the ORDER BY     *)
(* admits: rows with equal net_sol_change come in either order.            *)

\* HAVING COUNT(*) >= 100 / WHERE rounds_played >= 100, scaled down to the
\* number of rounds of the model
MinRoundsPlayed == 1

\* arguments of the queries
LeadN       == {0, 1, 2}
LeadLimits  == {1, 2}
LeadOffsets == {0, 1}

\* SELECT id FROM rounds ORDER BY id DESC LIMIT n  (SQLite: a negative LIMIT
\* is no limit)
LastRoundIds(rnds, n) ==
    LET ids == {r.id : r \in rnds}
    IN  IF n < 0 THEN ids
        ELSE {i \in ids : Cardinality({j \in ids : j > i}) < n}

\* CTE per_miner_round: deployments JOIN rounds, GROUP BY pubkey, round_id,
\* over the rounds in ids
PerMinerRound(deps, rnds, ids) ==
    { [pubkey             |-> k[1],
       round_id           |-> k[2],
       total_sol_deployed |-> SumCol({d \in deps : d.pubkey = k[1] /\ d.round_id = k[2]}, "amount"),
       total_sol_earned   |-> SumCol({d \in deps : d.pubkey = k[1] /\ d.round_id = k[2]}, "sol_earned"),
       total_ore_earned   |-> SumCol({d \in deps : d.pubkey = k[1] /\ d.round_id = k[2]}, "ore_earned"),
       won_round          |-> WonRound({d \in deps : d.pubkey = k[1] /\ d.round_id = k[2]}, k[3]),
       net_sol_round      |-> SumCol({d \in deps : d.pubkey = k[1] /\ d.round_id = k[2]}, "sol_earned")
                                - SumCol({d \in deps : d.pubkey = k[1] /\ d.round_id = k[2]}, "amount")]
      : k \in { <<x[1].pubkey, x[1].round_id, x[2].winning_square>> :
                   x \in { y \in deps \X rnds :
                             y[1].round_id = y[2].id /\ y[1].round_id \in ids } } }

\* GROUP BY pubkey over per-round rows: COUNT(*) and the SUMs
MinerAggs(perRound) ==
    { LET G == {s \in perRound : s.pubkey = p}
      IN  [pubkey             |-> p,
           rounds_played      |-> Cardinality(G),
           rounds_won         |-> SumCol(G, "won_round"),
           total_sol_deployed |-> SumCol(G, "total_sol_deployed"),
           total_sol_earned   |-> SumCol(G, "total_sol_earned"),
           total_ore_earned   |-> SumCol(G, "total_ore_earned"),
           net_sol_change     |-> SumCol(G, "net_sol_round")]
      : p \in {s.pubkey : s \in perRound} }

\* CASE WHEN net_sol_change > 0 THEN 'up' WHEN ... < 0 THEN 'down' ELSE 'flat'
Direction(net) ==
    IF net > 0 THEN "up" ELSE IF net < 0 THEN "down" ELSE "flat"

\* ORDER BY net_sol_change DESC: every order of the rows the clause admits
OrderedByNet(S) ==
    { q \in [1 .. Cardinality(S) -> S] :
        /\ \A i, j \in 1 .. Cardinality(S) : i # j => q[i] # q[j]
        /\ \A i, j \in 1 .. Cardinality(S) :
              i < j => q[i].net_sol_change >= q[j].net_sol_change }

\* LIMIT limit OFFSET offset
Page(q, limit, offset) ==
    SubSeq(q, offset + 1,
           IF limit < 0 \/ offset + limit > Len(q) THEN Len(q) ELSE offset + limit)

\* the row of MinerTotalsRow
TotalsRow(a) ==
    [pubkey |-> a.pubkey, rounds_played |-> a.rounds_played,
     rounds_won |-> a.rounds_won, total_sol_deployed |-> a.total_sol_deployed,
     total_sol_earned |-> a.total_sol_earned,
     total_ore_earned |-> a.total_ore_earned,
     net_sol_change |-> a.net_sol_change,
     sol_balance_direction |-> Direction(a.net_sol_change)]

\* the row of MinerLeaderboardRow: ROW_NUMBER() OVER (ORDER BY net_sol_change DESC)
LeaderboardRow(a, rank) ==
    [rank |-> rank, pubkey |-> a.pubkey, rounds_played |-> a.rounds_played,
     rounds_won |-> a.rounds_won, total_sol_deployed |-> a.total_sol_deployed,
     total_sol_earned |-> a.total_sol_earned,
     total_ore_earned |-> a.total_ore_earned,
     net_sol_change |-> a.net_sol_change,
     sol_balance_direction |-> Direction(a.net_sol_change)]

TotalsPage(S, limit, offset) ==
    { Page([i \in 1 .. Len(q) |-> TotalsRow(q[i])], limit, offset) :
        q \in OrderedByNet(S) }

LeaderboardPage(S, limit, offset) ==
    { Page([i \in 1 .. Len(q) |-> LeaderboardRow(q[i], i)], limit, offset) :
        q \in OrderedByNet(S) }

\* get_miner_totals_all_time: the CTE over all of deployments JOIN rounds
get_miner_totals_all_time(limit, offset) ==
    TotalsPage({ a \in MinerAggs(PerMinerRound(deployments, rounds,
                                               {r.id : r \in rounds})) :
                   a.rounds_played >= MinRoundsPlayed },
               limit, offset)

\* get_miner_totals_all_time_v2: miner_totals WHERE rounds_played >= 100
get_miner_totals_all_time_v2(limit, offset) ==
    TotalsPage({ t \in miner_totals : t.rounds_played >= MinRoundsPlayed },
               limit, offset)

\* get_leaderboard_last_n_rounds: .bind(n_rounds)
get_leaderboard_last_n_rounds(n_rounds, limit, offset) ==
    LeaderboardPage(MinerAggs(PerMinerRound(deployments, rounds,
                                            LastRoundIds(rounds, n_rounds))),
                    limit, offset)

\* get_leaderboard_last_n_rounds_v2: miner_round_stats JOIN last_n,
\* .bind(n_rounds.max(1))
get_leaderboard_last_n_rounds_v2(n_rounds, limit, offset) ==
    LeaderboardPage(
        MinerAggs({ s \in miner_round_stats :
                      s.round_id \in LastRoundIds(rounds,
                                        IF n_rounds > 1 THEN n_rounds ELSE 1) }),
        limit, offset)

-----------------------------------------------------------------------------
(* The store calls of the polling task, in any order                       *)

\* Round accounts handed to RoundRow::from
StoreRound(id, h, reward) ==
    [ChainRound([round_id |-> id + 1, prev_hash |-> h], id)
        EXCEPT !.top_miner_reward = reward]

StoreRoundRows ==
    { RoundRowFrom(StoreRound(id, h, reward)) :
         id \in AggRounds, h \in {"ones", "revealed"}, reward \in {0, 2} }

\* CreateDeployment rows: two miners on one square of each round
StoreDeploymentRows ==
    { DeploymentRow(r, p, 0, v) : r \in AggRounds, p \in AggPubkeys, v \in AggValues }

\* the Vec handed to insert_deployments: attribution emits at most one row
\* per miner and square, so a batch never repeats a key
StoreBatches ==
    {<<>>}
      \cup { <<d>> : d \in StoreDeploymentRows }
      \cup { <<d, e>> : d \in {x \in StoreDeploymentRows : x.pubkey = "A"},
                        e \in {x \in StoreDeploymentRows : x.pubkey = "B"} }

\* call.latest: per round id, the row of the most recent insert_round
NoCalls ==
    [op |-> "none", rows |-> <<>>, ok |-> TRUE,
     latest |-> [id \in AggRounds |-> {}]]

StoreUnchanged ==
    /\ UNCHANGED <<miner_round_stats, miner_totals, tx, finResult, writes, lastFin>>
    /\ UNCHANGED attrVars
    /\ UNCHANGED <<chain, poll, readModel, miner_snapshots, treasury>>

\* insert_round(pool, &r)
StoreInsertRound(r) ==
    /\ rounds' = UpsertRound(rounds, r)
    /\ call' = [op |-> "insert_round", rows |-> <<>>, ok |-> TRUE,
                latest |-> [call.latest EXCEPT ![r.id] = {r}]]
    /\ UNCHANGED deployments
    /\ StoreUnchanged

\* insert_deployment(pool, &d)
StoreInsertDeployment(d) ==
    /\ deployments' = UpsertDeployment(deployments, d)
    /\ call' = [call EXCEPT !.op = "insert_deployment", !.rows = <<d>>, !.ok = TRUE]
    /\ UNCHANGED rounds
    /\ StoreUnchanged

\* insert_deployments(pool, &rows)
StoreInsertDeployments(rows) ==
    LET res == InsertDeployments(deployments, rows) IN
    /\ deployments' = res.tbl
    /\ call' = [call EXCEPT !.op = "insert_deployments", !.rows = rows, !.ok = res.ok]
    /\ UNCHANGED rounds
    /\ StoreUnchanged

InitStore ==
    /\ rounds = {}
    /\ deployments = {}
    /\ miner_round_stats = {}
    /\ miner_totals = {}
    /\ tx = NoTx
    /\ finResult = "none"
    /\ writes = 0
    /\ lastFin = [last |-> 0, twice |-> FALSE]
    /\ round = NoRound
    /\ snapshot = <<>>
    /\ attributed = <<>>
    /\ attrPc = "off"
    /\ chain = [round_id |-> 0]
    /\ poll = [pc |-> "off"]
    /\ readModel = [miners |-> <<>>, rounds |-> <<>>]
    /\ miner_snapshots = <<>>
    /\ treasury = <<>>
    /\ call = NoCalls

NextStore ==
    \/ \E r \in StoreRoundRows : StoreInsertRound(r)
    \/ \E d \in StoreDeploymentRows : StoreInsertDeployment(d)
    \/ \E rows \in StoreBatches : StoreInsertDeployments(rows)

SpecStore == InitStore /\ [][NextStore]_vars

-----------------------------------------------------------------------------
(* Attribution and the rows of a round over the whole range of a word      *)

\* u64 values read from accounts: the ends of the range and the two values
\* around the largest signed one
WideWords == {0, 1, I64Max, I64Max + 1, U64Max}

\* a revealed round won on StakeSquare and one miner of that round staked
\* on it, with the treasury account read in the same iteration
WideInputs ==
    \E denom \in WideWords, sample \in {0, I64Max},
       tm \in {SPLIT_ADDRESS, "chain"},
       reward \in {0, U64Max}, ml \in {0, 1, U64Max}, tw \in WideWords,
       a \in WideWords \ {0}, ca \in {0, U64Max}, ore \in {0, U64Max},
       balance \in {1, I64Max + 1} :
        /\ SampleInRange(denom, sample)
        /\ round = RoundAccount(StakeSquare, denom, sample, tm, reward, ml, tw)
        /\ snapshot = << [MinerAccount("A", AttrRoundId, a, ca, 0)
                            EXCEPT !.rewards_ore = ore] >>
        /\ chain = [round_id |-> AttrRoundId + 1,
                    treasury |-> [balance |-> balance, motherlode |-> ml]]

\* the writes that follow attribution: insert_deployments,
\* insert_miner_snapshots, insert_round, insert_treasury, all accepted
WidePersist ==
    /\ attrPc = "done"
    /\ deployments' = InsertDeployments(deployments, attributed).tbl
    /\ miner_snapshots' = miner_snapshots \o DbSnapshot(snapshot)
    /\ rounds' = UpsertRound(rounds, RoundRowFrom(round))
    /\ treasury' = Append(treasury, CreateTreasuryFrom(chain.treasury))
    /\ attrPc' = "stored"
    /\ UNCHANGED <<round, snapshot, attributed>>
    /\ UNCHANGED <<miner_round_stats, miner_totals, tx, finResult, writes, lastFin>>
    /\ UNCHANGED <<chain, poll, readModel, call>>

InitWide ==
    /\ deployments = {}
    /\ rounds = {}
    /\ miner_round_stats = {}
    /\ miner_totals = {}
    /\ tx = NoTx
    /\ finResult = "none"
    /\ writes = 0
    /\ lastFin = [last |-> 0, twice |-> FALSE]
    /\ WideInputs
    /\ attributed = <<>>
    /\ attrPc = "ready"
    /\ poll = [pc |-> "off"]
    /\ readModel = [miners |-> <<>>, rounds |-> <<>>]
    /\ miner_snapshots = <<>>
    /\ treasury = <<>>
    /\ call = [op |-> "none"]

NextWide ==
    \/ AttributeRound
    \/ WidePersist

SpecWide == InitWide /\ [][NextWide]_vars

-----------------------------------------------------------------------------
(* infer_refined_ore (rpc.rs): the refined ORE of a snapshotted miner      *)

\* Numeric is a signed fixed-point number of two words, here its bits as an
\* integer: the value times 2^FracBits
FracBits    == 2
NumericOne  == 2^FracBits
NumericZero == 0

\* the bits fit the two words of a Numeric
FitsNumeric(x) == -(U128Mod \div 2) <= x /\ x < U128Mod \div 2

\* the two's complement value of the low two words
WrapNumeric(x) == ((x + U128Mod \div 2) % U128Mod) - U128Mod \div 2

\* the result of an operation on Numerics or of a conversion: the exact one
\* where it fits; where it does not, a panic in a build with overflow
\* checks and the wrapped value in a build without them
Overflowing(exact, fits, wrapped) ==
    IF fits THEN { [st |-> "ok", v |-> exact] }
    ELSE { [st |-> "panic", v |-> 0], [st |-> "ok", v |-> wrapped] }

\* Numeric - Numeric
NumericSub(a, b) == Overflowing(a - b, FitsNumeric(a - b), WrapNumeric(a - b))

\* the floor of x / 2^FracBits
FloorShift(x) == IF x >= 0 THEN x \div NumericOne
                 ELSE -((-x + NumericOne - 1) \div NumericOne)

\* Numeric * Numeric: the product keeps FracBits fraction bits
NumericMul(a, b) ==
    Overflowing(FloorShift(a * b), FitsNumeric(FloorShift(a * b)),
                WrapNumeric(FloorShift(a * b)))

\* Numeric::from_u64
NumericFromU64(x) == x * NumericOne

\* Numeric::to_u64: the integer part, which has to fit a u64
NumericToU64(a) ==
    Overflowing(FloorShift(a), 0 <= FloorShift(a) /\ FloorShift(a) <= U64Max,
                FloorShift(a) % (U64Max + 1))

\* infer_refined_ore(&miner, &treasury): the outcomes a build can produce
infer_refined_ore(miner, treas) ==
    UNION { IF d.st = "panic" THEN { d }
            ELSE IF d.v < NumericZero
            THEN { [st |-> "ok", v |-> miner.refined_ore] }
            ELSE UNION { IF m.st = "panic" THEN { m }
                         ELSE { IF a.st = "panic" THEN a
                                ELSE [st |-> "ok",
                                      v |-> SatAdd(miner.refined_ore, a.v)]
                                : a \in NumericToU64(m.v) }
                         : m \in NumericMul(d.v, NumericFromU64(miner.rewards_ore)) }
          : d \in NumericSub(treas.miner_rewards_factor, miner.rewards_factor) }

\* u64 balances and rewards factors of the accounts read
RefineWords   == {0, 1, 3, I64Max + 1, U64Max}
RefineFactors == {0, 1, NumericOne, NumericOne + 2, 2 * NumericOne,
                  U64Max * NumericOne}

\* a Miner account and the Treasury account as the snapshot branch reads them
InitRefine ==
    /\ deployments = {}
    /\ rounds = {}
    /\ miner_round_stats = {}
    /\ miner_totals = {}
    /\ tx = NoTx
    /\ finResult = "none"
    /\ writes = 0
    /\ lastFin = [last |-> 0, twice |-> FALSE]
    /\ round = NoRound
    /\ attributed = <<>>
    /\ attrPc = "off"
    /\ poll = [pc |-> "off"]
    /\ readModel = [miners |-> <<>>, rounds |-> <<>>]
    /\ miner_snapshots = <<>>
    /\ treasury = <<>>
    /\ call = [op |-> "none"]
    /\ \E refined \in RefineWords, ore \in RefineWords,
          mf \in RefineFactors, tf \in RefineFactors :
          /\ snapshot = << [authority |-> "A", refined_ore |-> refined,
                            rewards_ore |-> ore, rewards_factor |-> mf] >>
          /\ chain = [miner_rewards_factor |-> tf]

\* miner.refined_ore = infer_refined_ore(&miner, &treasury), or the task
\* panics
InferRefinedOre ==
    /\ call.op = "none"
    /\ \E out \in infer_refined_ore(snapshot[1], chain) :
          /\ call' = [op |-> "infer_refined_ore", st |-> out.st,
                      stored |-> snapshot[1].refined_ore]
          /\ snapshot' = IF out.st = "ok"
                         THEN << [snapshot[1] EXCEPT !.refined_ore = out.v] >>
                         ELSE snapshot
    /\ UNCHANGED <<deployments, rounds, miner_snapshots, treasury>>
    /\ UNCHANGED <<miner_round_stats, miner_totals, tx, finResult, writes, lastFin>>
    /\ UNCHANGED <<round, attributed, attrPc, chain, poll, readModel>>

NextRefine == InferRefinedOre

SpecRefine == InitRefine /\ [][NextRefine]_vars

-----------------------------------------------------------------------------
(* HTTP handlers over the read-model cells (main.rs)                       *)

\* longest miner list held by the miners cell
MaxMiners == 3

\* p.limit.unwrap_or(2500).max(1).min(2500)
MinersLimitCap == 2500

MinerNames == <<"A", "B", "C", "D", "E">>

\* the AppMiner of the i-th account: the fields GET /miners sorts by, chosen
\* so that the sort keys order the miners differently, round_id with ties
HttpMiner(i) ==
    [authority   |-> MinerNames[i],
     rewards_sol |-> i,
     rewards_ore |-> (2 * i) % 3,
     refined_ore |-> MaxMiners + 1 - i,
     round_id    |-> i % 2]

\* the miner lists a fetch of the program's accounts can yield: the first n
\* accounts, for every n up to MaxMiners
HttpMinerLists ==
    { [k \in 1 .. n |-> HttpMiner(k)] : n \in 0 .. MaxMiners }

\* values of the board and treasury accounts the task refreshes the cells with
HttpBoards     == { [round_id |-> id] : id \in 1 .. 2 }
HttpTreasuries == { [balance |-> b, motherlode |-> 0] : b \in 0 .. 1 }

\* stable insertion of x into a list sorted descending by key
InsertDesc(sorted, x, key) ==
    LET k == Cardinality({i \in 1 .. Len(sorted) : sorted[i][key] >= x[key]})
    IN  SubSeq(sorted, 1, k) \o <<x>> \o SubSeq(sorted, k + 1, Len(sorted))

RECURSIVE SortByDesc(_, _)
\* miners.sort_by(|a, b| b.key.partial_cmp(&a.key).unwrap()): stable,
\* descending
SortByDesc(q, key) ==
    IF q = <<>> THEN <<>>
    ELSE InsertDesc(SortByDesc(SubSeq(q, 1, Len(q) - 1), key), q[Len(q)], key)

\* order_by values and the field each sorts by; any other value sorts nothing
OrderKeys ==
    { <<"unclaimed_sol", "rewards_sol">>, <<"unclaimed_ore", "rewards_ore">>,
      <<"refined_ore", "refined_ore">>, <<"round_id", "round_id">> }

OrderByValues == {None} \cup {Some(k[1]) : k \in OrderKeys} \cup {Some("other")}

\* match p.order_by { Some(v) => ..., None => {} }
Ordered(miners, order_by) ==
    IF IsSome(order_by) /\ \E k \in OrderKeys : k[1] = Unwrap(order_by)
    THEN SortByDesc(miners, (CHOOSE k \in OrderKeys : k[1] = Unwrap(order_by))[2])
    ELSE miners

\* limit and offset as the handler clamps them
MinersLimit(limit)   == IF IsSome(limit)
                        THEN (IF Unwrap(limit) < 1 THEN 1
                              ELSE IF Unwrap(limit) > MinersLimitCap THEN MinersLimitCap
                              ELSE Unwrap(limit))
                        ELSE MinersLimitCap
MinersOffset(offset) == IF IsSome(offset) /\ Unwrap(offset) > 0 THEN Unwrap(offset) ELSE 0

\* a - b on usize where the build wraps
WrapSub(a, b) == (a - b) % (U64Max + 1)

Smaller(a, b) == IF a < b THEN a ELSE b

Response(op, limit, offset, order_by, status, body) ==
    [op |-> op, limit |-> limit, offset |-> offset, order_by |-> order_by,
     status |-> status, body |-> body]

\* miners[start..end].to_vec(): panics when the range is not within the list
SliceOf(op, limit, offset, order_by, sorted, start, end) ==
    IF start <= end /\ end <= Len(sorted)
    THEN Response(op, limit, offset, order_by, "ok", SubSeq(sorted, start + 1, end))
    ELSE Response(op, limit, offset, order_by, "panic", <<>>)

\* the responses of get_miners on a private copy of the list.  The two
\* subtractions are on usize: where one goes below zero a build with
\* overflow checks panics and a build without them wraps.
MinersPage(miners, limit, offset, order_by) ==
    IF Len(miners) = 0
    THEN { Response("get_miners", limit, offset, order_by, "ok", miners) }
    ELSE LET sorted == Ordered(miners, order_by)
             n      == Len(miners)
             start  == Smaller(offset, WrapSub(n, 2))
             rest   == WrapSub(WrapSub(n, 1), start)
             end    == start + Smaller(limit, rest)
         IN  { SliceOf("get_miners", limit, offset, order_by, sorted, start, end) }
               \cup (IF n < 2 \/ n - 1 < start
                     THEN { Response("get_miners", limit, offset, order_by, "panic", <<>>) }
                     ELSE {})

HttpUnchanged ==
    /\ UNCHANGED <<deployments, rounds, miner_round_stats, miner_totals, tx,
                   finResult, writes, lastFin>>
    /\ UNCHANGED attrVars
    /\ UNCHANGED <<chain, poll, miner_snapshots, treasury>>

\* variant: the handler sorts the shared list under a write lock
get_miners_SortsShared(limit, offset, order_by) ==
    /\ \E resp \in MinersPage(readModel.miners, MinersLimit(limit),
                              MinersOffset(offset), order_by) : call' = resp
    /\ readModel' = [readModel EXCEPT !.miners = Ordered(@, order_by)]
    /\ HttpUnchanged

\* GET /miners: clone the list under the read lock, sort and slice the copy
get_miners(limit, offset, order_by) ==
    /\ \E resp \in MinersPage(readModel.miners, MinersLimit(limit),
                              MinersOffset(offset), order_by) : call' = resp
    /\ UNCHANGED readModel
    /\ HttpUnchanged

\* GET /treasury
get_treasury ==
    /\ call' = Response("get_treasury", 0, 0, None, "ok", <<readModel.treasury>>)
    /\ UNCHANGED readModel
    /\ HttpUnchanged

\* GET /board
get_board ==
    /\ call' = Response("get_board", 0, 0, None, "ok", <<readModel.board>>)
    /\ UNCHANGED readModel
    /\ HttpUnchanged

\* GET /round: the last round of the rounds cell, or an error
get_round ==
    /\ call' = IF Len(readModel.rounds) > 0
               THEN Response("get_round", 0, 0, None, "ok",
                             <<readModel.rounds[Len(readModel.rounds)]>>)
               ELSE Response("get_round", 0, 0, None, "err", <<>>)
    /\ UNCHANGED readModel
    /\ HttpUnchanged

\* the polling task refreshes the treasury cell
TaskWritesTreasury(t) ==
    /\ readModel' = [readModel EXCEPT !.treasury = t]
    /\ UNCHANGED call
    /\ HttpUnchanged

\* the polling task refreshes the board cell
TaskWritesBoard(b) ==
    /\ readModel' = [readModel EXCEPT !.board = b]
    /\ UNCHANGED call
    /\ HttpUnchanged

\* the polling task sets the miners cell to its snapshot
TaskWritesMiners(miners) ==
    /\ readModel' = [readModel EXCEPT !.miners = miners]
    /\ UNCHANGED call
    /\ HttpUnchanged

\* the polling task pushes a finalized round
TaskPushesRound ==
    /\ Len(readModel.rounds) < MaxRound
    /\ readModel' = [readModel EXCEPT !.rounds = Append(@, [id |-> Len(@) + 1])]
    /\ UNCHANGED call
    /\ HttpUnchanged

\* ?limit= and ?offset= of a request: absent, or a number
HttpLimits  == {None} \cup {Some(l) : l \in {0, 2, MaxMiners}}
HttpOffsets == {None} \cup {Some(o) : o \in {-1, 1, MaxMiners}}

InitHttp ==
    /\ deployments = {}
    /\ rounds = {}
    /\ miner_round_stats = {}
    /\ miner_totals = {}
    /\ tx = NoTx
    /\ finResult = "none"
    /\ writes = 0
    /\ lastFin = [last |-> 0, twice |-> FALSE]
    /\ round = NoRound
    /\ snapshot = <<>>
    /\ attributed = <<>>
    /\ attrPc = "off"
    /\ chain = [round_id |-> 1]
    /\ poll = PollStart(0)
    /\ \E miners \in HttpMinerLists, b \in HttpBoards, t \in HttpTreasuries :
          readModel = [miners |-> miners, rounds |-> <<>>,
                       treasury |-> t, board |-> b]
    /\ miner_snapshots = <<>>
    /\ treasury = <<>>
    /\ call = Response("none", 0, 0, None, "ok", <<>>)

NextHttp ==
    \/ \E limit \in HttpLimits, offset \in HttpOffsets, order_by \in OrderByValues :
          get_miners(limit, offset, order_by)
    \/ get_treasury
    \/ get_board
    \/ get_round
    \/ \E t \in HttpTreasuries : TaskWritesTreasury(t)
    \/ \E b \in HttpBoards : TaskWritesBoard(b)
    \/ \E miners \in HttpMinerLists : TaskWritesMiners(miners)
    \/ TaskPushesRound

SpecHttp == InitHttp /\ [][NextHttp]_vars

-----------------------------------------------------------------------------
(* The RwLocks of the read-model cells: the polling task's write guards    *)
(* and the handlers' read guards (rpc.rs, main.rs)                         *)

\* requests served at the same time
MaxReaders == 2
Readers    == 1 .. MaxReaders

\* AppState: one Arc<RwLock<..>> per cell
Cells == {"treasury", "board", "miners", "rounds"}

\* a point of the loop body: an await on an RPC call, a sleep or a store
\* call, or an operation on a cell
Await(what)  == [op |-> what, cell |-> "none"]
WriteTo(c)   == << [op |-> "lock", cell |-> c], [op |-> "set", cell |-> c],
                   [op |-> "drop", cell |-> c] >>

\* variant: the guard of a cell is dropped only after the await that follows
WriteThenAwait_DropsLate(c, what) ==
    << [op |-> "lock", cell |-> c], [op |-> "set", cell |-> c], Await(what),
       [op |-> "drop", cell |-> c] >>

\* r.write().await; *l = ..; drop(l); and the await that follows
WriteThenAwait(c, what) == WriteTo(c) \o << Await(what) >>

\* fetch and refresh of the treasury and the board, then the slot
ReadChain ==
    << Await("rpc") >> \o WriteThenAwait("treasury", "sleep")
        \o << Await("rpc") >> \o WriteThenAwait("board", "rpc")
        \o << Await("sleep") >>

\* the miners cell and the rounds cell are written between the store calls
PersistRound ==
    WriteThenAwait("miners", "store") \o WriteThenAwait("rounds", "store")
        \o << Await("store") >>

\* the awaits and cell operations of one iteration, by the way it takes
IterationPaths ==
    { << Await("rpc"), Await("sleep") >>,
      << Await("rpc") >> \o WriteThenAwait("treasury", "sleep")
          \o << Await("rpc"), Await("sleep") >>,
      ReadChain,
      ReadChain \o << Await("sleep") >>,
      ReadChain \o << Await("rpc"), Await("sleep") >>,
      ReadChain \o << Await("rpc"), Await("sleep"), Await("rpc") >>,
      ReadChain \o << Await("rpc"), Await("sleep") >> \o PersistRound,
      ReadChain \o << Await("rpc"), Await("store") >> \o PersistRound
          \o << Await("sleep") >> }

\* the task between two iterations
TaskAtTop == [path |-> <<>>, at |-> 0, held |-> {}]

\* the point the task is at
TaskOp == poll.path[poll.at]

TaskRunning == poll.at > 0

\* a request no handler has taken yet
NoRequest == [st |-> "idle", cell |-> "none", behind |-> FALSE]

\* read guards held on cell c
ReadGuards(c) == {r \in Readers : call[r].st = "reading" /\ call[r].cell = c}

LockUnchanged ==
    /\ UNCHANGED <<deployments, rounds, miner_snapshots, treasury>>
    /\ UNCHANGED <<miner_round_stats, miner_totals, tx, finResult, writes, lastFin>>
    /\ UNCHANGED <<round, snapshot, attributed, attrPc, chain>>

\* the loop starts an iteration
TaskBegins ==
    /\ ~TaskRunning
    /\ \E path \in IterationPaths : poll' = [poll EXCEPT !.path = path, !.at = 1]
    /\ UNCHANGED <<call, readModel>>
    /\ LockUnchanged

\* the next point of the iteration, or its end
TaskAdvanced ==
    IF poll.at = Len(poll.path) THEN [poll EXCEPT !.path = <<>>, !.at = 0]
    ELSE [poll EXCEPT !.at = @ + 1]

\* an RPC call, a sleep or a store call returns
TaskResumes ==
    /\ TaskRunning
    /\ TaskOp.op \in {"rpc", "sleep", "store"}
    /\ poll' = TaskAdvanced
    /\ UNCHANGED <<call, readModel>>
    /\ LockUnchanged

\* r.write().await returns the write guard: no guard is held on the cell
TaskLocks ==
    /\ TaskRunning
    /\ TaskOp.op = "lock"
    /\ TaskOp.cell \notin poll.held
    /\ ReadGuards(TaskOp.cell) = {}
    /\ poll' = [TaskAdvanced EXCEPT !.held = @ \cup {TaskOp.cell}]
    /\ UNCHANGED <<call, readModel>>
    /\ LockUnchanged

\* *l = ..  or  l.push(..)
TaskSets ==
    /\ TaskRunning
    /\ TaskOp.op = "set"
    /\ poll' = TaskAdvanced
    /\ readModel' = [readModel EXCEPT ![TaskOp.cell] = "task"]
    /\ UNCHANGED call
    /\ LockUnchanged

\* drop(l): the requests queued behind the writer may go on
TaskDrops ==
    /\ TaskRunning
    /\ TaskOp.op = "drop"
    /\ poll' = [TaskAdvanced EXCEPT !.held = @ \ {TaskOp.cell}]
    /\ call' = [r \in Readers |->
                  IF call[r].cell = TaskOp.cell THEN [call[r] EXCEPT !.behind = FALSE]
                  ELSE call[r]]
    /\ UNCHANGED readModel
    /\ LockUnchanged

\* the writer waits for cell c or holds it
WriterQueued(c) ==
    \/ c \in poll.held
    \/ TaskRunning /\ TaskOp.op = "lock" /\ TaskOp.cell = c

\* a handler calls read().await on its cell: the RwLock is fair, a read
\* requested after a write waits for that write
HandlerRequests(r, c) ==
    /\ call[r].st = "idle"
    /\ call' = [call EXCEPT ![r] = [st |-> "waiting", cell |-> c,
                                    behind |-> WriterQueued(c)]]
    /\ UNCHANGED <<poll, readModel>>
    /\ LockUnchanged

\* read().await returns the read guard
HandlerReads(r) ==
    /\ call[r].st = "waiting"
    /\ ~call[r].behind
    /\ call[r].cell \notin poll.held
    /\ call' = [call EXCEPT ![r].st = "reading"]
    /\ UNCHANGED <<poll, readModel>>
    /\ LockUnchanged

\* the handler clones the value and its guard is dropped, by drop() or at
\* the end of the function, with no await in between
HandlerReturns(r) ==
    /\ call[r].st = "reading"
    /\ call' = [call EXCEPT ![r] = NoRequest]
    /\ UNCHANGED <<poll, readModel>>
    /\ LockUnchanged

InitLock ==
    /\ deployments = {}
    /\ rounds = {}
    /\ miner_round_stats = {}
    /\ miner_totals = {}
    /\ tx = NoTx
    /\ finResult = "none"
    /\ writes = 0
    /\ lastFin = [last |-> 0, twice |-> FALSE]
    /\ round = NoRound
    /\ snapshot = <<>>
    /\ attributed = <<>>
    /\ attrPc = "off"
    /\ chain = [round_id |-> 1]
    /\ miner_snapshots = <<>>
    /\ treasury = <<>>
    /\ poll = TaskAtTop
    /\ readModel = [c \in Cells |-> "main"]
    /\ call = [r \in Readers |-> NoRequest]

NextLock ==
    \/ TaskBegins
    \/ TaskResumes
    \/ TaskLocks
    \/ TaskSets
    \/ TaskDrops
    \/ \E r \in Readers, c \in Cells : HandlerRequests(r, c)
    \/ \E r \in Readers : HandlerReads(r)
    \/ \E r \in Readers : HandlerReturns(r)

SpecLock == InitLock /\ [][NextLock]_vars

-----------------------------------------------------------------------------
(* Aggregation maintainer: claims                                          *)

StatsOf(pubkey) == {s \in miner_round_stats : s.pubkey = pubkey}

\* C1: in every state a reader of the store can see, every miner_totals row
\* equals the count / sums of that pubkey's miner_round_stats rows, whatever
\* finalize calls and deployment or round writes came before.
C1_TotalsEqualSumOfRoundStats ==
    \A t \in miner_totals :
        LET S == StatsOf(t.pubkey)
        IN  /\ t.rounds_played      = Cardinality(S)
            /\ t.rounds_won         = SumCol(S, "won_round")
            /\ t.total_sol_deployed = SumCol(S, "total_sol_deployed")
            /\ t.total_sol_earned   = SumCol(S, "total_sol_earned")
            /\ t.total_ore_earned   = SumCol(S, "total_ore_earned")
            /\ t.net_sol_change     = SumCol(S, "net_sol_round")

\* a pubkey with two finalized rounds, one of them won, after rows were
\* written between the finalize calls
C1_Witness ==
    /\ finResult = "ok"
    /\ writes = MaxWrites
    /\ lastFin.last # 0
    /\ \E t \in miner_totals : t.rounds_played = 2 /\ t.rounds_won = 1

\* C2: a finalize that commits for the round of the previous committed
\* finalize, with no deployment or round write in between, leaves
\* miner_round_stats and miner_totals as the first call left them.
C2_SecondFinalizeChangesNothing ==
    [][ ( /\ tx.pc = "commit"
          /\ finResult' = "ok"
          /\ lastFin.last = tx.round_id )
        => ( /\ miner_round_stats' = miner_round_stats
             /\ miner_totals' = miner_totals ) ]_vars

\* the second of two finalize calls in a row has committed, over a round
\* that has rows
C2_Witness ==
    /\ lastFin.twice
    /\ finResult = "ok"
    /\ \E s \in miner_round_stats : s.round_id = lastFin.last

\* C3: the only step that changes what the store shows of miner_round_stats
\* and miner_totals is the commit, which installs the outcome of all four
\* steps at once; a failed or aborted call changes nothing.
C3_AllOrNothing ==
    [][ ( \/ miner_round_stats' # miner_round_stats
          \/ miner_totals' # miner_totals )
        => ( /\ tx.pc = "commit"
             /\ finResult' = "ok"
             /\ miner_round_stats' = tx.stats
             /\ miner_totals' = tx.totals ) ]_vars

\* inside the transaction the prior contribution is subtracted and the fresh
\* one not yet added, while the store still shows the totals of before the call
C3_Witness ==
    /\ tx.pc = "subtract"
    /\ tx.prior = {}
    /\ tx.writeLock
    /\ tx.totals # miner_totals
    /\ C1_TotalsEqualSumOfRoundStats

\* the deployments of pubkey p in round R
DeploymentsOf(R, p) == {d \in deployments : d.round_id = R /\ d.pubkey = p}

\* the sum of a column over the squares of DeploymentsOf(R, p): a miner has
\* at most one row per square
ColumnSum(R, p, col) ==
    LET on(sq) == {d \in DeploymentsOf(R, p) : d.square_id = sq}
        RECURSIVE upTo(_)
        upTo(sq) == IF sq < 0 THEN 0
                    ELSE upTo(sq - 1)
                         + (IF on(sq) = {} THEN 0 ELSE (CHOOSE d \in on(sq) : TRUE)[col])
    IN  upTo(NumSquares - 1)

\* C35: when finalize_round_idempotent(R) commits, every pubkey p with
\* deployments in R, the row of R being in rounds, has exactly one
\* miner_round_stats row (R, p), whose columns are the sums over p's
\* deployments in R, whose net_sol_round is the sol earned less the sol
\* deployed, and whose won_round is 1 if p has a deployment on the round's
\* winning_square and 0 if not, 0 always for the sentinel 100.
C35_RoundStatsAreTheSums ==
    [][ (tx.pc = "commit" /\ finResult' = "ok")
        => \A p \in {d.pubkey : d \in deployments}, r \in rounds :
              (r.id = tx.round_id /\ DeploymentsOf(r.id, p) # {})
              => LET S == {s \in miner_round_stats' :
                              s.round_id = r.id /\ s.pubkey = p}
                 IN  /\ Cardinality(S) = 1
                     /\ \A s \in S :
                         /\ s.total_sol_deployed = ColumnSum(r.id, p, "amount")
                         /\ s.total_sol_earned = ColumnSum(r.id, p, "sol_earned")
                         /\ s.total_ore_earned = ColumnSum(r.id, p, "ore_earned")
                         /\ s.net_sol_round = ColumnSum(r.id, p, "sol_earned")
                                                - ColumnSum(r.id, p, "amount")
                         /\ s.won_round =
                               (IF \E d \in DeploymentsOf(r.id, p) :
                                      d.square_id = r.winning_square
                                THEN 1 ELSE 0)
                         /\ r.winning_square = UnrevealedSquare => s.won_round = 0
      ]_vars

\* a finalization has committed for a round in which a miner has stakes on
\* two squares, one of them the winning one, the columns differing
C35_Witness ==
    /\ finResult = "ok"
    /\ \E s \in miner_round_stats, r \in rounds :
          /\ s.round_id = lastFin.last
          /\ r.id = s.round_id
          /\ Cardinality(DeploymentsOf(s.round_id, s.pubkey)) = 2
          /\ s.won_round = 1
          /\ s.net_sol_round # 0
          /\ s.total_sol_deployed = ColumnSum(s.round_id, s.pubkey, "amount")

-----------------------------------------------------------------------------
(* Reward attribution: claims                                              *)

WS     == round.rng.square
Denom  == round.deployed[WS]
Sample == IF Denom = 0 THEN 0 ELSE round.rng.sample % Denom

AllMiners == 1 .. Len(snapshot)
Matching  == {i \in AllMiners : snapshot[i].round_id = round.id}
Rows      == 1 .. Len(attributed)
WinRows   == {k \in Rows : attributed[k].square_id = WS}

\* the sum of f over the finite set S
SumOver(S, f(_)) ==
    LET sum[T \in SUBSET S] ==
            IF T = {} THEN 0
            ELSE LET x == CHOOSE y \in T : TRUE
                 IN  f(x) + sum[T \ {x}]
    IN  sum[S]

StakeOn(i)    == snapshot[i].deployed[WS]
StartOn(i)    == snapshot[i].cumulative[WS]
InInterval(x, i) == StartOn(i) <= x /\ x < StartOn(i) + StakeOn(i)

\* two intervals share a point
Overlap(i, j) ==
    /\ StakeOn(i) > 0 /\ StakeOn(j) > 0
    /\ StartOn(i) < StartOn(j) + StakeOn(j)
    /\ StartOn(j) < StartOn(i) + StakeOn(i)

\* the intervals of the miners I on the winning square are pairwise disjoint
\* and cover [0, Denom)
Partition(I) ==
    /\ \A i, j \in I : i # j => ~Overlap(i, j)
    /\ \A x \in 0 .. (Denom - 1) : \E i \in I : InInterval(x, i)

\* floor(x * amount / Denom)
Floor(x, amount) == (x * amount) \div Denom

MotherlodePart(amount) == IF round.motherlode > 0 THEN Floor(round.motherlode, amount) ELSE 0

\* the winning-square row of snapshot miner i, if one was emitted
RowOf(i) == {k \in WinRows : attributed[k].pubkey = snapshot[i].authority}

\* what miner i received of the top-miner reward
TopPartOf(i) ==
    IF RowOf(i) = {} THEN 0
    ELSE LET k == CHOOSE k \in RowOf(i) : TRUE
         IN  attributed[k].ore_earned - MotherlodePart(attributed[k].amount)

ClaimFee(amount) == IF amount \div 100 > 1 THEN amount \div 100 ELSE 1

SolOf(k)    == attributed[k].sol_earned
AmountOf(k) == attributed[k].amount
FeeOf(k)    == ClaimFee(attributed[k].amount)

C4_Pre ==
    /\ attrPc = "done"
    /\ Denom > 0
    /\ SumOver(Matching, StakeOn) = Denom

C4_Target == Denom - SumOver(WinRows, FeeOf) + round.total_winnings

\* C4: when the matching miners' stakes on the winning square sum to denom > 0,
\* the emitted sol_earned sum to denom - (sum of admin fees) + total_winnings,
\* short by at most N, the number of winning-square deployments.
C4_SolConservation ==
    C4_Pre =>
        /\ SumOver(Rows, SolOf) <= C4_Target
        /\ C4_Target - SumOver(Rows, SolOf) <= Cardinality(WinRows)

\* two winners, and a floor-division residue is lost
C4_Witness ==
    /\ C4_Pre
    /\ Cardinality(WinRows) = 2
    /\ round.total_winnings > 0
    /\ SumOver(Rows, SolOf) < C4_Target

C5_Award(I) ==
    \A i \in AllMiners :
        TopPartOf(i) = IF i \in I /\ InInterval(Sample, i)
                       THEN round.top_miner_reward ELSE 0

\* C5 as stated: the intervals of all miners of the snapshot partition
\* [0, denom), and the miner whose interval holds the sample, alone, is
\* awarded top_miner_reward.
C5_Original ==
    ( /\ attrPc = "done"
      /\ ~IsSplit(round)
      /\ Denom > 0
      /\ Partition(AllMiners) )
    => C5_Award(AllMiners)

C5_Pre ==
    /\ attrPc = "done"
    /\ ~IsSplit(round)
    /\ Denom > 0
    /\ Partition(Matching)

\* C5, amended: when the intervals of the snapshot miners whose round_id is
\* the round's partition [0, denom), the one of them whose interval holds the
\* sample is awarded top_miner_reward and no other miner receives a
\* top-miner component.
C5_SingleTopMiner ==
    C5_Pre => C5_Award(Matching)

\* two miners of the round share the winning square; the second holds the sample
C5_Witness ==
    /\ C5_Pre
    /\ Cardinality(WinRows) = 2
    /\ round.top_miner_reward > 0
    /\ round.motherlode > 0
    /\ \E i \in Matching : InInterval(Sample, i) /\ StartOn(i) > 0

ReachesReward == {k \in Rows : attributed[k].ore_earned >= round.top_miner_reward}

\* C6 as stated: every attributed round outside split mode has exactly one
\* deployment with ore_earned >= top_miner_reward.
C6_Original ==
    (attrPc = "done" /\ ~IsSplit(round)) => Cardinality(ReachesReward) = 1

C6_Pre ==
    /\ attrPc = "done"
    /\ ~IsSplit(round)
    /\ Denom > 0
    /\ round.top_miner_reward > 0
    /\ round.motherlode = 0
    /\ Partition(Matching)

\* C6, amended: outside split mode, with denom > 0, top_miner_reward > 0, no
\* motherlode, and the intervals of the round's miners partitioning
\* [0, denom), exactly one deployment has ore_earned >= top_miner_reward.
C6_ExactlyOneReachesReward ==
    C6_Pre => Cardinality(ReachesReward) = 1

\* several deployments were emitted, two of them on the winning square
C6_Witness ==
    /\ C6_Pre
    /\ Cardinality(WinRows) = 2
    /\ Len(attributed) > 2

Scenario1 ==
    /\ attrPc = "done"
    /\ WS = 7 /\ Denom = 1000 /\ Sample = 300
    /\ round.total_winnings = 500 /\ round.top_miner_reward = 200
    /\ round.motherlode = 0
    /\ ~IsSplit(round)
    /\ Len(snapshot) = 2
    /\ snapshot[1].authority = "A" /\ StakeOn(1) = 400 /\ StartOn(1) = 0
    /\ snapshot[2].authority = "B" /\ StakeOn(2) = 600 /\ StartOn(2) = 400
    /\ Matching = {1, 2}

Emitted(pubkey, sol, ore) ==
    /\ \E k \in Rows : attributed[k].pubkey = pubkey
    /\ \A k \in Rows : attributed[k].pubkey = pubkey =>
          /\ attributed[k].square_id = 7
          /\ attributed[k].sol_earned = sol
          /\ attributed[k].ore_earned = ore

\* C7 as stated: scenario 1 yields A: sol 596, ore 0 and B: sol 894, ore 200.
C7_Original ==
    Scenario1 => (Emitted("A", 596, 0) /\ Emitted("B", 894, 200))

\* C7, amended: scenario 1 yields A: sol 596, ore 200 and B: sol 894, ore 0
\* (the sample 300 lies in A's interval [0, 400)).
C7_Scenario1 ==
    Scenario1 => (Emitted("A", 596, 200) /\ Emitted("B", 894, 0))

C7_Witness == Scenario1 /\ Len(attributed) = 2

SplitPartOf(k) == attributed[k].ore_earned - MotherlodePart(attributed[k].amount)

C8_Pre == attrPc = "done" /\ IsSplit(round) /\ Denom > 0

\* C8: in split mode with denom > 0 every winning-square deployment's
\* top-miner share is floor(top_miner_reward * amount / denom), whatever the
\* sample and the cumulative offsets (80 and 120 of 200 for 400 and 600 of
\* 1000); when the stakes sum to denom the shares sum to at most the reward
\* and fall short of it by less than the number of winners.
C8_SplitShares ==
    C8_Pre =>
        /\ \A k \in WinRows :
              /\ SplitPartOf(k) = Floor(round.top_miner_reward, AmountOf(k))
              /\ (Denom = 1000 /\ round.top_miner_reward = 200 /\ AmountOf(k) = 400)
                    => SplitPartOf(k) = 80
              /\ (Denom = 1000 /\ round.top_miner_reward = 200 /\ AmountOf(k) = 600)
                    => SplitPartOf(k) = 120
        /\ SumOver(WinRows, AmountOf) = Denom =>
              /\ SumOver(WinRows, SplitPartOf) <= round.top_miner_reward
              /\ round.top_miner_reward - SumOver(WinRows, SplitPartOf)
                    < Cardinality(WinRows)

\* split mode, two winners whose stakes sum to denom, and dust is lost
C8_Witness ==
    /\ C8_Pre
    /\ Cardinality(WinRows) = 2
    /\ SumOver(WinRows, AmountOf) = Denom
    /\ SumOver(WinRows, SplitPartOf) < round.top_miner_reward
    /\ \E i \in Matching : StartOn(i) > 0

\* the top-miner component the round's rules give the miner of row k
RuleTopPart(k) ==
    IF IsSplit(round) THEN Floor(round.top_miner_reward, AmountOf(k))
    ELSE IF \E i \in Matching : /\ snapshot[i].authority = attributed[k].pubkey
                                /\ InInterval(Sample, i)
         THEN round.top_miner_reward
         ELSE 0

\* C9: with denom > 0, a motherlode > 0 adds floor(motherlode * amount /
\* denom) to every winning-square deployment's ore_earned on top of its
\* top-miner component, in split and single-winner mode alike (400 and 600
\* of 1000 for 400 and 600 of 1000); a motherlode of 0 adds nothing.
C9_MotherlodeShare ==
    (attrPc = "done" /\ Denom > 0) =>
        \A k \in WinRows :
            LET added == attributed[k].ore_earned - RuleTopPart(k)
            IN  /\ round.motherlode > 0 => added = Floor(round.motherlode, AmountOf(k))
                /\ round.motherlode = 0 => added = 0
                /\ (round.motherlode = 1000 /\ Denom = 1000 /\ AmountOf(k) = 400)
                      => added = 400
                /\ (round.motherlode = 1000 /\ Denom = 1000 /\ AmountOf(k) = 600)
                      => added = 600

\* a motherlode is shared by two winners
C9_Witness ==
    /\ attrPc = "done"
    /\ Denom > 0
    /\ round.motherlode > 0
    /\ Cardinality(WinRows) = 2
    /\ \E k \in WinRows : attributed[k].ore_earned > RuleTopPart(k)

\* C10: when nothing is deployed on the winning square (denom = 0), every
\* emitted deployment has sol_earned = ore_earned = 0, and every non-zero
\* stake of every miner of the round still has its row.
C10_NoWinners ==
    (attrPc = "done" /\ Denom = 0) =>
        /\ \A k \in Rows : attributed[k].sol_earned = 0 /\ attributed[k].ore_earned = 0
        /\ \A i \in Matching : \A sq \in Squares :
              snapshot[i].deployed[sq] # 0 =>
                  \E k \in Rows : /\ attributed[k].pubkey = snapshot[i].authority
                                  /\ attributed[k].square_id = sq
                                  /\ attributed[k].amount = snapshot[i].deployed[sq]
                                  /\ attributed[k].round_id = round.id

\* denom = 0 and several stakes, off and even on the drawn square, are emitted
C10_Witness ==
    /\ attrPc = "done"
    /\ Denom = 0
    /\ Len(attributed) >= 3
    /\ WinRows # {}

\* C11: in every attributed round, an emitted deployment whose square_id is
\* not the winning square has sol_earned = 0 and ore_earned = 0; non-zero
\* rewards occur on the winning square only.
C11_RewardsOnlyOnWinningSquare ==
    attrPc = "done" =>
        \A k \in Rows :
            /\ attributed[k].square_id # WS =>
                  (attributed[k].sol_earned = 0 /\ attributed[k].ore_earned = 0)
            /\ (attributed[k].sol_earned # 0 \/ attributed[k].ore_earned # 0) =>
                  attributed[k].square_id = WS

\* a miner is rewarded on the winning square and has a row on another square
C11_Witness ==
    /\ attrPc = "done"
    /\ Denom > 0
    /\ \E k \in WinRows : attributed[k].sol_earned > 0 /\ attributed[k].ore_earned > 0
    /\ \E k \in Rows : attributed[k].square_id # WS /\ attributed[k].amount > 0

\* the emitted rows of miner i on square sq
RowsFor(i, sq) ==
    {k \in Rows : /\ attributed[k].pubkey = snapshot[i].authority
                  /\ attributed[k].square_id = sq}

\* C12: attribution of round R emits exactly one row (R, authority, square)
\* for each snapshot miner with round_id = R and each square with
\* deployed[square] > 0, with amount = deployed[square]; it emits no row for
\* a zero stake, none for a miner of another round, and no other row.
C12_OneRowPerStake ==
    attrPc = "done" =>
        /\ \A i \in AllMiners : \A sq \in Squares :
              IF i \in Matching /\ snapshot[i].deployed[sq] > 0
              THEN /\ Cardinality(RowsFor(i, sq)) = 1
                   /\ \A k \in RowsFor(i, sq) :
                         /\ attributed[k].round_id = round.id
                         /\ attributed[k].amount = snapshot[i].deployed[sq]
              ELSE RowsFor(i, sq) = {}
        /\ \A k \in Rows : \E i \in Matching : \E sq \in Squares : k \in RowsFor(i, sq)

\* rows were emitted for a miner of the round, who also has a square
\* without stake, while the other miner, staked, is left from another round
C12_Witness ==
    /\ attrPc = "done"
    /\ Len(attributed) = 2
    /\ \E i \in AllMiners \ Matching : \E sq \in Squares : snapshot[i].deployed[sq] > 0
    /\ \E i \in Matching : snapshot[i].deployed[StakeSquare] > 0
                             /\ snapshot[i].deployed[OtherSquare] > 0

-----------------------------------------------------------------------------
(* Polling loop: claims                                                    *)

StoreTables == <<deployments, rounds, miner_snapshots, treasury>>

\* the iteration that is due fetches a round with this slot hash
Fetches(h) == FinalizeDue /\ chain.prev_hash = h

\* a step of the polling task other than its abort
TaskStep == chain' = chain /\ poll'.pc # "aborted"

\* the store call of this step was accepted
Accepted == poll'.store_errors = poll.store_errors

\* C13: an iteration that fetches a round with an all-zero slot_hash for
\* finalization writes nothing to the store and nothing to the miners and
\* rounds cells, leaves pending.completed false and the finalization due, so
\* that a later iteration fetches again; no rounds row with an all-zero
\* slot_hash has a winning_square other than 100.
C13_ZeroHashRetried ==
    /\ [][ (Fetches("zero") /\ TaskStep)
           => ( /\ StoreTables' = StoreTables
                /\ readModel' = readModel
                /\ snapshot' = snapshot
                /\ ~poll'.completed
                /\ FinalizeDue' ) ]_vars
    /\ [](\A r \in rounds : r.slot_hash = "zero" => r.winning_square = 100)

\* a snapshot with miners waits for a sealed round whose slot hash still
\* reads all-zero, after an iteration of the live branch has run and after
\* an earlier round was persisted
C13_Witness ==
    /\ Fetches("zero")
    /\ ~poll.board_snapshot
    /\ Len(snapshot) > 0
    /\ poll.round_id = chain.round_id - 1
    /\ rounds # {}

\* the writes after a failed reset are under way
ResetFailedWrites ==
    /\ poll.pc \in {"w_miners", "w_round", "w_treasury"}
    /\ round.slot_hash = "ones"

\* C14: an iteration that fetches a round with an all-ones slot_hash sets
\* pending.completed and writes no deployment; its insert_miner_snapshots
\* appends the rows of the pending snapshot, unchanged, and its insert_round
\* stores the round with winning_square = 100, whenever the store accepts
\* the call; no round stored with an all-ones slot_hash has a deployment.
C14_ResetFailedPersisted ==
    /\ [][ (Fetches("ones") /\ TaskStep /\ poll'.pc # "loop")
           => ( /\ poll'.completed
                /\ poll'.pc = "w_miners"
                /\ round'.id = chain.round_id - 1
                /\ StoreTables' = StoreTables ) ]_vars
    /\ [][ ResetFailedWrites
           => ( /\ deployments' = deployments
                /\ snapshot' = snapshot
                /\ poll'.pc # "aborted" => poll'.completed ) ]_vars
    /\ [][ (ResetFailedWrites /\ poll.pc = "w_miners" /\ poll'.pc = "w_round" /\ Accepted)
           => miner_snapshots' = miner_snapshots \o
                 [i \in 1 .. Len(snapshot) |->
                     [pubkey |-> snapshot[i].authority,
                      unclaimed_ore |-> snapshot[i].rewards_ore]] ]_vars
    /\ [][ (ResetFailedWrites /\ poll.pc = "w_round" /\ poll'.pc = "w_treasury" /\ Accepted)
           => /\ \E r \in rounds' : /\ r.id = round.id
                                    /\ r.slot_hash = "ones"
                                    /\ r.winning_square = 100
              /\ Cardinality({r \in rounds' : r.id = round.id}) = 1 ]_vars
    /\ [](\A r \in rounds : r.slot_hash = "ones" =>
              /\ r.winning_square = 100
              /\ ~\E d \in deployments : d.round_id = r.id)

\* a failed reset has been written through: its round row, the rows of a
\* snapshot with miners and the treasury row are stored, and the task is
\* back at the loop with completed set
C14_Witness ==
    /\ AtLoop
    /\ poll.completed
    /\ round.slot_hash = "ones"
    /\ Len(snapshot) > 0
    /\ \E r \in rounds : r.id = round.id /\ r.winning_square = 100
    /\ Len(miner_snapshots) >= Len(snapshot)
    /\ Len(treasury) > 0
    /\ deployments # {}

\* the round ids finalized by the running task, in order
Finalized == [i \in 1 .. Len(readModel.rounds) |-> readModel.rounds[i].id]

\* C15: with board.round_id never decreasing, the round ids the task
\* finalizes are strictly increasing.
C15_FinalizedIncreasing ==
    \A i, j \in 1 .. Len(Finalized) : i < j => Finalized[i] < Finalized[j]

\* three rounds have been finalized by one run of the task
C15_Witness == Len(Finalized) = 3 /\ AtLoop /\ poll.completed

\* C16: rounds finalized one after the other have consecutive ids.
C16_NoRoundSkipped ==
    \A i \in 1 .. (Len(Finalized) - 1) : Finalized[i + 1] = Finalized[i] + 1

\* C17: in every state a store reader or an abort can observe, a round
\* that has deployments stored has its round row stored too: the writes of
\* one finalization are never seen in part.
C17_FinalizationAtomic ==
    \A d \in deployments : \E r \in rounds : r.id = d.round_id

\* C21: once the task has marked a revealed round completed, miner_round_stats
\* holds a row (R, p) for every miner p with a stored deployment in R, and
\* miner_totals has a row for p with at least that round played.
C21_AggregatesMaintained ==
    (AtLoop /\ poll.completed /\ round.slot_hash = "revealed") =>
        \A d \in deployments :
            d.round_id = round.id =>
                /\ \E s \in miner_round_stats :
                      s.round_id = round.id /\ s.pubkey = d.pubkey
                /\ \E t \in miner_totals :
                      t.pubkey = d.pubkey /\ t.rounds_played >= 1

\* the snapshot awaiting finalization
Pending == <<poll.round_id, snapshot, poll.completed>>

\* this step is an iteration of the loop, up to its sleep or its first
\* store call
Iterates == AtLoop /\ Idle /\ call'.op = "iteration"

\* an iteration that has fetched the board and the slot, and so observes
\* slots_left_in_round
Observes == Iterates /\ call'.failed \notin Observed

\* C26: an iteration that finds the board with end_slot = u64::MAX
\* enumerates no miners, leaves pending and board_snapshot_taken as they
\* are and writes nothing to the store.
C26_WaitingBoardOnlyRefreshes ==
    [][ (Iterates /\ chain.phase = "waiting")
        => ( /\ "miners" \notin call'.fetched
             /\ Pending' = Pending
             /\ poll'.board_snapshot = poll.board_snapshot
             /\ StoreTables' = StoreTables ) ]_vars

\* C27: an iteration that observes slots_left_in_round <= 0 with
\* board_snapshot_taken false, and whose fetches all succeed, ends with
\* board_snapshot_taken true and pending = { the board's round_id, the
\* enumerated miners, completed false }.
C27_SnapshotTakenAtOrPastDeadline ==
    [][ (Observes /\ SlotsLeft(chain) <= 0 /\ ~poll.board_snapshot
                  /\ call'.failed = "none")
        => ( /\ poll'.board_snapshot
             /\ Pending' = <<chain.round_id, ChainMiners(chain), FALSE>> ) ]_vars

\* C28: an iteration that observes slots_left_in_round <= 0 with
\* board_snapshot_taken true leaves board_snapshot_taken and pending
\* unchanged and enumerates no miners.
C28_OneSnapshotPerDeadline ==
    [][ (Observes /\ SlotsLeft(chain) <= 0 /\ poll.board_snapshot)
        => ( /\ poll'.board_snapshot
             /\ Pending' = Pending
             /\ "miners" \notin call'.fetched ) ]_vars

\* C29: an iteration that observes slots_left_in_round > 0 with
\* pending.completed true clears board_snapshot_taken, leaves pending
\* unchanged, fetches no round, and writes nothing to the store nor to the
\* miners and rounds cells.
C29_LiveIterationOnlyClearsFlag ==
    [][ (Observes /\ SlotsLeft(chain) > 0 /\ poll.completed)
        => ( /\ ~poll'.board_snapshot
             /\ Pending' = Pending
             /\ "round" \notin call'.fetched
             /\ poll'.pc = "loop"
             /\ StoreTables' = StoreTables
             /\ readModel' = readModel ) ]_vars

\* an iteration of a round under way has just run with a finalized round
\* behind it, whose rows are stored
C29_Witness ==
    /\ AtLoop
    /\ call = Iteration(Observed, "none")
    /\ SlotsLeft(chain) > 0
    /\ poll.completed
    /\ ~poll.board_snapshot
    /\ Len(snapshot) > 0
    /\ rounds # {}

\* the branch of the loop that is due: the snapshot, the finalization
SnapshotDue == AtLoop /\ SlotsLeft(chain) < 0 /\ ~poll.board_snapshot

\* C30: an iteration in which the fetch of the treasury, the board, the slot
\* or a round fails leaves pending unchanged and writes nothing to the
\* store, and the branch that was due is due again at the next iteration.
C30_FailedFetchRetried ==
    [][ (Iterates /\ call'.failed \in Observed \cup {"round"})
        => ( /\ Pending' = Pending
             /\ StoreTables' = StoreTables
             /\ poll'.pc = "loop"
             /\ SnapshotDue => SnapshotDue'
             /\ FinalizeDue => FinalizeDue' ) ]_vars

\* the fetch of the round to finalize has just failed, with a snapshot of
\* miners pending and the flag set by that snapshot
C30_Witness ==
    /\ call.op = "iteration"
    /\ call.failed = "round"
    /\ FinalizeDue
    /\ Len(snapshot) > 0
    /\ poll.round_id = chain.round_id - 1

\* C31: an iteration whose miner enumeration fails leaves
\* board_snapshot_taken false and pending as it was, and the snapshot is due
\* again at the next iteration.
C31_FailedEnumerationRetried ==
    [][ (Iterates /\ call'.failed = "miners")
        => ( /\ ~poll'.board_snapshot
             /\ Pending' = Pending
             /\ SnapshotDue' ) ]_vars

\* C32: pending.completed is set by a finalization only if each of its
\* store writes took effect: at the end of a finalizing iteration that has
\* set it, the rows attributed, the rows of the snapshot, the round's row
\* and a treasury row are stored.
C32_CompletedOnlyAfterWrites ==
    (AtLoop /\ call = Iteration(Observed \cup {"round"}, "none") /\ poll.completed)
        => ( /\ SeqToSet(attributed) \subseteq deployments
             /\ SeqToSet(DbSnapshot(snapshot)) \subseteq SeqToSet(miner_snapshots)
             /\ RoundRowFrom(round) \in rounds
             /\ treasury # <<>> )

\* the store writes of a finalization are under way
Persisting == poll.pc \in {"w_deployments", "w_miners", "w_round", "w_treasury"}

\* C33: whenever the task has attributed or is persisting a round from the
\* pending snapshot, the snapshot was taken for that round:
\* pending.round_id is the round's id.
C33_SnapshotOfTheRoundFinalized ==
    Persisting => poll.round_id = round.id

\* a step of the running task
RunningStep == TaskStep /\ poll.pc # "aborted"

\* C39: the task replaces the miners cell only by the miners of a snapshot
\* the snapshot branch has taken, never by the empty list pending is
\* constructed with.
C39_MinersCellFromTakenSnapshot ==
    [][ (RunningStep /\ readModel'.miners # readModel.miners)
        => ( /\ readModel'.miners = snapshot
             /\ Len(snapshot) > 0 ) ]_vars

\* C40: the task replaces a pending snapshot of miners only when it is
\* marked completed.
C40_PendingNotOverwritten ==
    [][ (RunningStep /\ Len(snapshot) > 0
                     /\ <<poll'.round_id, snapshot'>> # <<poll.round_id, snapshot>>)
        => poll.completed ]_vars

\* the round before the board's has its row stored
PreviousPersisted == \E r \in rounds : r.id = chain.round_id - 1

\* C34: with a snapshot pending, the board's round staying open, the RPC
\* failures ending and the slot hash of the previous round becoming
\* non-zero, the previous round is eventually persisted and
\* pending.completed eventually true.
C34_PendingEventuallyFinalized ==
    <>(poll.completed /\ PreviousPersisted)

\* the miners of the snapshot that deployed in round r on its winning square
\* over an interval that holds the round's sample, outside split mode
Covering(r, miners) ==
    { i \in 1 .. Len(miners) :
        /\ miners[i].round_id = r.id
        /\ r.top_miner # SPLIT_ADDRESS
        /\ r.slot_hash = "revealed"
        /\ LET ws     == r.rng.square
               sample == TopMinerSampleOf(r, r.rng, ws)
               start  == miners[i].cumulative[ws]
           IN  /\ r.deployed[ws] > 0
               /\ miners[i].deployed[ws] > 0
               /\ start <= sample
               /\ sample < start + miners[i].deployed[ws] }

\* the top_miner the round is to carry
WinnerOf(r, miners) ==
    IF Covering(r, miners) = {} THEN {r.top_miner}
    ELSE {miners[i].authority : i \in Covering(r, miners)}

-----------------------------------------------------------------------------
(* Store calls: claims                                                     *)

OneRowPerDeploymentKey ==
    \A x, y \in deployments : SameDeploymentKey(x, y) => x = y

OneRowPerRoundId ==
    \A x, y \in rounds : x.id = y.id => x = y

\* C18: a batch insert_deployments succeeds whether or not rows with its
\* keys are already stored, and afterwards the table holds exactly one row
\* per key, with the values of the batch for the keys of the batch, as after
\* insert_deployment.
C18_FinalizationIdempotent ==
    /\ OneRowPerDeploymentKey
    /\ OneRowPerRoundId
    /\ call.op \in {"insert_deployments", "insert_deployment"} =>
          /\ call.ok
          /\ SeqToSet(call.rows) \subseteq deployments

\* C19: after any sequence of insert_round calls the rounds table holds
\* exactly one row per round id inserted and none else, and that row is the
\* row of the most recent insert_round for its id.
C19_LatestRoundRow ==
    /\ OneRowPerRoundId
    /\ rounds = UNION {call.latest[id] : id \in AggRounds}

\* a round id was inserted a second time with other values while another
\* round id keeps its row
C19_Witness ==
    /\ call.op = "insert_round"
    /\ Cardinality(rounds) = 2
    /\ \E r \in rounds : r.winning_square = UnrevealedSquare
    /\ \E r \in rounds : r.winning_square # UnrevealedSquare /\ r.top_miner_reward = 0
    /\ deployments # {}

-----------------------------------------------------------------------------
(* Leaderboards: claims                                                    *)

\* the round finalized last was finalized after every write to the store,
\* and no other round has deployments
FinalizedAfterWrites ==
    /\ lastFin.last # 0
    /\ tx.pc = "idle"
    /\ deployments # {}
    /\ \A d \in deployments : d.round_id = lastFin.last

\* C20: when every round with deployments was finalized after its last
\* write, get_miner_totals_all_time_v2 admits the same results as
\* get_miner_totals_all_time and get_leaderboard_last_n_rounds_v2 the same
\* as get_leaderboard_last_n_rounds, for the same limit, offset and N.
C20_FastEqualsSlow ==
    FinalizedAfterWrites =>
        \A limit \in LeadLimits, offset \in LeadOffsets :
            /\ get_miner_totals_all_time_v2(limit, offset)
                  = get_miner_totals_all_time(limit, offset)
            /\ \A n \in LeadN :
                  get_leaderboard_last_n_rounds_v2(n, limit, offset)
                     = get_leaderboard_last_n_rounds(n, limit, offset)

-----------------------------------------------------------------------------
(* Values of the whole word range: claims                                  *)

\* C22: every monetary value persisted is non-negative: amount, sol_earned,
\* ore_earned and unclaimed_ore of the deployments and miner snapshots, the
\* totals of the round row and of the treasury row.
C22_PersistedNonNegative ==
    /\ \A d \in deployments :
          d.amount >= 0 /\ d.sol_earned >= 0 /\ d.ore_earned >= 0 /\ d.unclaimed_ore >= 0
    /\ \A i \in 1 .. Len(miner_snapshots) : miner_snapshots[i].unclaimed_ore >= 0
    /\ \A r \in rounds :
          r.motherlode >= 0 /\ r.top_miner_reward >= 0 /\ r.total_winnings >= 0
    /\ \A i \in 1 .. Len(treasury) :
          treasury[i].balance >= 0 /\ treasury[i].motherlode >= 0

\* the smaller of the exact sum and u64::MAX
Saturated(x) == IF x > U64Max THEN U64Max ELSE x

\* the top-miner part miner i is due, from exact shares
ExactTopPart(i) ==
    IF IsSplit(round) THEN Floor(round.top_miner_reward, StakeOn(i))
    ELSE IF Sample >= StartOn(i) /\ Sample < Saturated(StartOn(i) + StakeOn(i))
         THEN round.top_miner_reward
         ELSE 0

\* C23: for a stake 0 < amount <= denom on the winning square, each share
\* attribution computes equals floor(x * amount / denom) taken over the
\* integers, for x = total_winnings, top_miner_reward and motherlode, and the
\* emitted sol_earned and ore_earned are the sums of their parts cut off at
\* u64::MAX.
C23_SharesExactSumsSaturate ==
    attrPc \in {"done", "stored"} =>
        \A i \in Matching :
            (0 < StakeOn(i) /\ StakeOn(i) <= Denom) =>
                /\ ProRata(round.total_winnings, StakeOn(i), Denom)
                      = Floor(round.total_winnings, StakeOn(i))
                /\ ProRata(round.top_miner_reward, StakeOn(i), Denom)
                      = Floor(round.top_miner_reward, StakeOn(i))
                /\ ProRata(round.motherlode, StakeOn(i), Denom)
                      = Floor(round.motherlode, StakeOn(i))
                /\ \A k \in RowOf(i) :
                      /\ attributed[k].sol_earned =
                            AsI64(Saturated(StakeOn(i) - ClaimFee(StakeOn(i))
                                              + Floor(round.total_winnings, StakeOn(i))))
                      /\ attributed[k].ore_earned =
                            AsI64(Saturated(ExactTopPart(i) + MotherlodePart(StakeOn(i))))
                /\ RowOf(i) # {}

\* a share whose product needs more than one word was computed, and both
\* sums were cut off at u64::MAX
C23_Witness ==
    /\ attrPc = "done"
    /\ \E i \in Matching :
          /\ 0 < StakeOn(i) /\ StakeOn(i) <= Denom
          /\ round.total_winnings * StakeOn(i) > U64Max
          /\ StakeOn(i) - ClaimFee(StakeOn(i)) + Floor(round.total_winnings, StakeOn(i)) > U64Max
          /\ ExactTopPart(i) + MotherlodePart(StakeOn(i)) > U64Max
          /\ \E k \in RowOf(i) : attributed[k].sol_earned = AsI64(U64Max)

-----------------------------------------------------------------------------
(* Refined ORE: claims                                                     *)

\* treasury.miner_rewards_factor - miner.rewards_factor, exactly
FactorDelta == chain.miner_rewards_factor - snapshot[1].rewards_factor

\* the integer part of the delta times rewards_ore, exactly
Accrued == FloorShift(FactorDelta * snapshot[1].rewards_ore)

\* C36: the inferred refined_ore is the stored one when the delta of the
\* rewards factors is negative, and otherwise the stored one plus the
\* truncated product of the delta with rewards_ore, saturating at u64::MAX;
\* it is never below the stored one.
C36_RefinedOreInferred ==
    call.op = "infer_refined_ore"
        => /\ call.st = "ok"
           /\ snapshot[1].refined_ore >= call.stored
           /\ snapshot[1].refined_ore =
                 (IF FactorDelta < 0 THEN call.stored
                  ELSE IF call.stored + Accrued > U64Max THEN U64Max
                  ELSE call.stored + Accrued)

-----------------------------------------------------------------------------
(* Cell locks: claims                                                      *)

\* the task is suspended on an RPC call, a sleep or a store call
Suspended == TaskRunning /\ TaskOp.op \in {"rpc", "sleep", "store"}

\* C37: the task holds at most one write guard at a time and none while it
\* is suspended on an RPC call, a sleep or a store call, so no handler waits
\* on a cell the suspended task holds; the task never waits for a cell it
\* holds, and a handler queued behind the writer waits for a writer that is
\* there: no party waits for a party that waits for it.
C37_GuardsNotHeldAcrossAwaits ==
    /\ Cardinality(poll.held) <= 1
    /\ Suspended => poll.held = {}
    /\ \A r \in Readers :
          (Suspended /\ call[r].st = "waiting") => call[r].cell \notin poll.held
    /\ (TaskRunning /\ TaskOp.op = "lock") => TaskOp.cell \notin poll.held
    /\ \A r \in Readers :
          (call[r].st = "waiting" /\ call[r].behind) => WriterQueued(call[r].cell)

\* a handler waits behind the task, which holds the guard of the miners
\* cell, while another handler waits for the rounds cell the task has yet
\* to write
C37_Witness ==
    /\ poll.held = {"miners"}
    /\ \E r, q \in Readers :
          /\ call[r] = [st |-> "waiting", cell |-> "miners", behind |-> TRUE]
          /\ call[q].st = "waiting"
          /\ call[q].cell = "rounds"

-----------------------------------------------------------------------------
(* HTTP handlers: claims                                                   *)

\* a handler has answered a request
HandlerStep == call' # call

\* C24: a handler's step leaves the treasury, board, rounds and miners
\* cells and the polling task's board_snapshot and miners_snapshot as they
\* were; GET /miners with any order_by leaves the contents and the order of
\* the shared miner list unchanged.
C24_HandlersOnlyRead ==
    [][ HandlerStep =>
          /\ readModel' = readModel
          /\ poll' = poll
          /\ snapshot' = snapshot ]_vars

\* GET /miners has answered with a page in another order than the shared
\* list holds
C24_Witness ==
    /\ call.op = "get_miners"
    /\ call.status = "ok"
    /\ Len(call.body) = 2
    /\ Len(readModel.miners) = 3
    /\ \E i, j \in 1 .. 3 :
          /\ i < j
          /\ readModel.miners[i] = call.body[2]
          /\ readModel.miners[j] = call.body[1]

\* C25: for a list of n >= 1 miners GET /miners does not fail, and with
\* offset 0 and limit >= n it returns all n miners.
C25_AllMinersServed ==
    [][ (HandlerStep /\ call'.op = "get_miners" /\ Len(readModel.miners) >= 1) =>
          /\ call'.status = "ok"
          /\ (call'.offset = 0 /\ call'.limit >= Len(readModel.miners)) =>
                /\ Len(call'.body) = Len(readModel.miners)
                /\ SeqToSet(call'.body) = SeqToSet(readModel.miners) ]_vars

====
